---- MODULE Spec2Model ----
(***************************************************************************)
(* A model of pv-api: the batch notifier (cmd/notifier/main.go), the       *)
(* strategy handler (handler package), the Tiingo data provider (data      *)
(* package), the Accelerating Dual Momentum strategy (strategies/adm.go)   *)
(* and the performance analytics (portfolio package).  Each component has  *)
(* its own specification over its own variables; the variables of the      *)
(* other components stay at their idle values.                             *)
(***************************************************************************)
EXTENDS Integers, Sequences, FiniteSets, TLC

\* ------------------------------------------------------------------ bounds

\* The longest list getSavedPortfolios returns in the model.
MaxPortfolios == 2
\* The largest value of --limit.
MaxLimit == 2
\* The most calls of Compute on one strategy instance.
MaxComputes == 2
\* The longest measurement series of which every one is tried, and the
\* largest portfolio value in them.
MaxMeasurements == 6
MaxValue == 3
\* The longest series of monthly returns of which every one is tried.
MaxReturns == 3
\* The longest period of PeriodCagr, in years, and of UlcerIndex, in
\* measurements.
MaxPeriod == 3
\* The most rows of the daily risk-free series.
MaxRates == 3

\* ----------------------------------------------------------------- notifier

VARIABLES
    testFlag,       \* --test
    limitFlag,      \* --limit
    dateFlag,       \* --date: [unset, y, m, d]; unset is the default "-1"
    nowDay,         \* time.Now() as a day number in America/New_York
    forDate,        \* run date as days since 1970-01-01
    disableSend,    \* package variable disableSend
    pc,             \* position of main
    exitCode,       \* process exit status once pc = "exited"
    exitReason,     \* which statement ended the process
    dbState,        \* "untouched", "failed" or "connected"
    StrategyMap,    \* strategies.StrategyMap as used by the notifier
    numPortfolios,  \* len(savedPortfolios)
    ii,             \* loop index of main's range loop
    s,              \* the saved portfolio row of the current iteration
    failed,         \* stage at which the current portfolio failed, or "none"
    updated,        \* updateSavedPortfolioPerformanceMetrics ran for s
    notifyUser,     \* result of getUser in processNotifications
    lookups,        \* results of the three last-trading-day lookups
    toSend,         \* processNotifications' toSend for s
    requests,       \* frequencies for which sendgrid.API was called for s
    skipped,        \* sendEmail calls for s that returned 304 without sending
    nComputed,      \* portfolios on which the strategy's Compute was called
    nUpdated,       \* portfolios whose stored metrics were updated
    nNotified,      \* portfolios handed to processNotifications
    apiCalls        \* total calls of sendgrid.API

\* ------------------------------------------------------------------ handler

VARIABLES
    strategyMap,    \* handler.strategyMap: shortcode -> StrategyInfo
    initCalls,      \* calls of IntializeStrategyMap so far
    request,        \* the request served last
    response        \* its response

hvars == <<strategyMap, initCalls, request, response>>

\* ------------------------------------------------------------------- tiingo

VARIABLES
    call,           \* the provider call made last, with the provider's answer
    result,         \* what the call returned
    waiting         \* the call is inside http.Get: no answer has come yet

tvars == <<call, result, waiting>>

\* ---------------------------------------------------------------------- adm

VARIABLES
    adm,            \* the *AcceleratingDualMomentum the factory returned
    admCall,        \* the strategy operation called last, with its inputs
    admResult,      \* what that operation returned
    computes,       \* calls of adm.Compute so far
    manager         \* the *data.Manager of the caller: its request window

avars == <<adm, admCall, admResult, computes, manager>>

\* ---------------------------------------------------------------- analytics

VARIABLES
    perf            \* the Performance: its Measurements; the locals of
                    \* DrawDowns (the measurements visited, peak, drawDown
                    \* and allDrawDowns); the DrawDowns of its MetricsBundle
                    \* once built; the last metric computed on it

\* ------------------------------------------------------------- risk-free rate

VARIABLES
    fred            \* the process-global daily DTB3 series of package data:
                    \* whether it is loaded, how often it was, its rows;
                    \* and the last RiskFreeRate query, its answer, and
                    \* the query before it

flagVars == <<testFlag, limitFlag, dateFlag, nowDay>>
iterVars == <<s, failed, updated, notifyUser, lookups, toSend, requests, skipped>>
countVars == <<nComputed, nUpdated, nNotified, apiCalls>>
nvars == <<flagVars, forDate, disableSend, pc, exitCode, exitReason, dbState,
           StrategyMap, numPortfolios, ii, iterVars, countVars>>
vars == <<nvars, hvars, tvars, avars, perf, fred>>
outsideNotifier == <<hvars, tvars, avars, perf, fred>>
outsideHandler == <<nvars, tvars, avars, perf, fred>>
outsideTiingo == <<nvars, hvars, avars, perf, fred>>
outsideAdm == <<nvars, hvars, tvars, perf, fred>>
outsideAnalytics == <<nvars, hvars, tvars, avars, fred>>
outsideFred == <<nvars, hvars, tvars, avars, perf>>

\* Notification bits (main.go:27-32).
daily == 16
weekly == 256
monthly == 4096
annually == 65536

\* Go's & on non-negative ints.
RECURSIVE BitAnd(_, _)
BitAnd(a, b) ==
    IF a = 0 \/ b = 0 THEN 0
    ELSE (a % 2) * (b % 2) + 2 * BitAnd(a \div 2, b \div 2)

\* Days since 1970-01-01 of a civil date (the time package's calendar).
DaysFromCivil(y, m, d) ==
    LET yy == IF m <= 2 THEN y - 1 ELSE y
        era == yy \div 400
        yoe == yy - era * 400
        mp == IF m > 2 THEN m - 3 ELSE m + 9
        doy == (153 * mp + 2) \div 5 + d - 1
        doe == yoe * 365 + yoe \div 4 - yoe \div 100 + doy
    IN era * 146097 + doe - 719468

IsLeap(y) == (y % 4 = 0 /\ y % 100 # 0) \/ y % 400 = 0

DaysIn(y, m) ==
    IF m = 2 THEN (IF IsLeap(y) THEN 29 ELSE 28)
    ELSE IF m \in {4, 6, 9, 11} THEN 30 ELSE 31

\* time.Parse("2006-01-02", ...): an out-of-range month or day is an error.
ParseDate(f) ==
    IF f.m \in 1..12 /\ f.d >= 1 /\ f.d <= DaysIn(f.y, f.m)
    THEN [err |-> FALSE, day |-> DaysFromCivil(f.y, f.m, f.d)]
    ELSE [err |-> TRUE, day |-> 0]

\* time.Weekday: Sunday = 0 ... Saturday = 6; 1970-01-01 was a Thursday.
Weekday(day) == (day + 4) % 7

\* validRunDay with the Saturday test left out.
validRunDaySundayOnly(today) == ~(Weekday(today) = 0)

\* validRunDay (main.go:326-332); the holiday calendar is a stub.
validRunDay(today) ==
    LET isWeekday == ~(Weekday(today) = 6 \/ Weekday(today) = 0)
        isHoliday == FALSE
    IN isWeekday /\ ~isHoliday

\* datesEqual (main.go:135-141): equality of the calendar days.
datesEqual(d1, d2) == d1 = d2

\* lastTradingDayOf... without the comparison of the dates.
lastTradingDayOfAnyDay(today, lookup) == ~lookup.err

\* lastTradingDayOfWeek/Month/Year (main.go:143-165) on the manager's answer.
lastTradingDayOf(today, lookup) ==
    IF lookup.err THEN FALSE ELSE datesEqual(today, lookup.day)

\* The frequency selection of processNotifications (main.go:173-198).
ToSendFor(m, today, lk) ==
    (IF BitAnd(m, daily) = daily THEN <<"Daily">> ELSE <<>>)
    \o (IF BitAnd(m, weekly) = weekly /\ lastTradingDayOf(today, lk.week)
        THEN <<"Weekly">> ELSE <<>>)
    \o (IF BitAnd(m, monthly) = monthly /\ lastTradingDayOf(today, lk.month)
        THEN <<"Monthly">> ELSE <<>>)
    \o (IF BitAnd(m, annually) = annually /\ lastTradingDayOf(today, lk.year)
        THEN <<"Annually">> ELSE <<>>)

\* buildEmail without the test of the recipient.
buildEmailForAnyone(verified) == [err |-> FALSE]

\* buildEmail (main.go:259-302): refuses an unverified recipient.
buildEmail(verified) == [err |-> ~verified]

\* sendEmail without the disableSend test.
sendEmailAlways(disable, apiErr) ==
    IF apiErr THEN [called |-> TRUE, status |-> 0 - 1, err |-> TRUE]
    ELSE [called |-> TRUE, status |-> 202, err |-> FALSE]

\* sendEmail (main.go:304-324).
sendEmail(disable, apiErr) ==
    IF disable THEN [called |-> FALSE, status |-> 304, err |-> FALSE]
    ELSE IF apiErr THEN [called |-> TRUE, status |-> 0 - 1, err |-> TRUE]
    ELSE [called |-> TRUE, status |-> 202, err |-> FALSE]

\* The send loop of processNotifications (main.go:200-220) over toSend.
RECURSIVE SendLoop(_, _, _, _)
SendLoop(freqs, verified, disable, apiErrs) ==
    IF freqs = <<>> THEN [requests |-> <<>>, skipped |-> 0]
    ELSE LET freq == Head(freqs)
             rest == SendLoop(Tail(freqs), verified, disable, apiErrs)
         IN IF buildEmail(verified).err THEN rest
            ELSE LET r == sendEmail(disable, freq \in apiErrs)
                 IN [requests |-> (IF r.called THEN <<freq>> ELSE <<>>)
                                  \o rest.requests,
                     skipped |-> (IF r.called THEN 0 ELSE 1) + rest.skipped]

\* The stage at which computePortfolioPerformance fails (main.go:89-133).
ComputeStage(userOk, known, argsOk, factoryOk, computeOk) ==
    IF ~userOk THEN "user"
    ELSE IF ~known THEN "strategy"
    ELSE IF ~argsOk THEN "arguments"
    ELSE IF ~factoryOk THEN "factory"
    ELSE IF ~computeOk THEN "compute"
    ELSE "none"

\* ------------------------------------------------------------ inputs

DateFlags ==
    { [unset |-> TRUE, y |-> 0, m |-> 0, d |-> 0],
      [unset |-> FALSE, y |-> 2021, m |-> 1, d |-> 1],    \* Friday
      [unset |-> FALSE, y |-> 2021, m |-> 1, d |-> 2],    \* Saturday
      [unset |-> FALSE, y |-> 2021, m |-> 1, d |-> 3],    \* Sunday
      [unset |-> FALSE, y |-> 2021, m |-> 2, d |-> 30] }  \* not a date

NowDays == { DaysFromCivil(2021, 1, 4), DaysFromCivil(2021, 1, 5) }

NotificationMasks == { 1, 16, 4352, 65808 }

Shortcodes == { "adm", "xyz" }

NoLookup == [called |-> FALSE, err |-> FALSE, day |-> 0]
NoLookups == [week |-> NoLookup, month |-> NoLookup, year |-> NoLookup]
NoRow == [Strategy |-> "", Notifications |-> 0]

\* What the manager's LastTradingDayOf... can answer for a date.
LookupResults(today, wanted) ==
    IF wanted
    THEN { [called |-> TRUE, err |-> TRUE, day |-> 0],
           [called |-> TRUE, err |-> FALSE, day |-> today],
           [called |-> TRUE, err |-> FALSE, day |-> today + 1] }
    ELSE { NoLookup }

\* ------------------------------------------------------------ idle values

NoRequest == [op |-> "none", id |-> "", inits |-> 0]
NoResponse == [status |-> 0, body |-> "none"]

\* The handler package before IntializeStrategyMap and before any request.
HandlerIdle ==
    /\ strategyMap = << >>
    /\ initCalls = 0
    /\ request = NoRequest
    /\ response = NoResponse

NoCall == [fn |-> "none"]
NoResult == [kind |-> "none"]

\* The provider before any call.
TiingoIdle ==
    /\ call = NoCall
    /\ result = NoResult
    /\ waiting = FALSE

\* No strategy instance: the nil Strategy.
NoInstance ==
    [made |-> FALSE, inTickers |-> << >>, outTicker |-> << >>,
     momentum |-> << >>, CurrentSymbol |-> << >>]
NoAdmCall == [fn |-> "none"]
nullTime == [year |-> 1, month |-> 1, day |-> 1]
NoManager ==
    [made |-> FALSE, Begin |-> nullTime, End |-> nullTime, Frequency |-> ""]
NoAdmResult == [kind |-> "none"]

\* A Performance without measurements whose metrics are not built.
NoMetric == [fn |-> "none"]
NoPerformance ==
    [Measurements |-> << >>, visited |-> 0, peak |-> 0, drawDown |-> << >>,
     allDrawDowns |-> << >>, built |-> FALSE, DrawDowns |-> << >>,
     metric |-> NoMetric]
AnalyticsIdle == perf = NoPerformance

\* Package data before InitializeDataManager.
FredIdle ==
    fred = [loaded |-> FALSE, loads |-> 0, series |-> << >>,
            previous |-> 0, query |-> 0, answer |-> << >>]

\* The strategies package before the factory is called.
AdmIdle ==
    /\ adm = NoInstance
    /\ admCall = NoAdmCall
    /\ admResult = NoAdmResult
    /\ computes = 0
    /\ manager = NoManager

\* The notifier before main runs.
NotifierIdle ==
    /\ testFlag = FALSE
    /\ limitFlag = 0
    /\ dateFlag = [unset |-> TRUE, y |-> 0, m |-> 0, d |-> 0]
    /\ nowDay = 0
    /\ forDate = 0
    /\ disableSend = FALSE
    /\ pc = "idle"
    /\ exitCode = 0
    /\ exitReason = "running"
    /\ dbState = "untouched"
    /\ StrategyMap = {}
    /\ numPortfolios = 0
    /\ ii = 0
    /\ s = NoRow
    /\ failed = "none"
    /\ updated = FALSE
    /\ notifyUser = "none"
    /\ lookups = NoLookups
    /\ toSend = <<>>
    /\ requests = <<>>
    /\ skipped = 0
    /\ nComputed = 0
    /\ nUpdated = 0
    /\ nNotified = 0
    /\ apiCalls = 0

\* ------------------------------------------------------- notifier actions

NotifierStart ==
    /\ testFlag \in BOOLEAN
    /\ limitFlag \in 0..MaxLimit
    /\ dateFlag \in DateFlags
    /\ nowDay \in NowDays
    /\ (~dateFlag.unset => nowDay = DaysFromCivil(2021, 1, 4))
    /\ forDate = 0
    /\ disableSend = FALSE
    /\ pc = "flags"
    /\ exitCode = 0
    /\ exitReason = "running"
    /\ dbState = "untouched"
    /\ StrategyMap = {}
    /\ numPortfolios = 0
    /\ ii = 0
    /\ s = NoRow
    /\ failed = "none"
    /\ updated = FALSE
    /\ notifyUser = "none"
    /\ lookups = NoLookups
    /\ toSend = <<>>
    /\ requests = <<>>
    /\ skipped = 0
    /\ nComputed = 0
    /\ nUpdated = 0
    /\ nNotified = 0
    /\ apiCalls = 0

\* log.Fatal: the process exits with status 1.
Fatal(reason) ==
    /\ pc' = "exited"
    /\ exitCode' = 1
    /\ exitReason' = reason

\* main.go:343-353: the run date from --date, or yesterday in New York.
ParseFlags ==
    /\ pc = "flags"
    /\ IF dateFlag.unset
       THEN /\ forDate' = nowDay - 1
            /\ pc' = "runday"
            /\ UNCHANGED <<exitCode, exitReason>>
       ELSE LET r == ParseDate(dateFlag)
            IN IF r.err
               THEN Fatal("date") /\ UNCHANGED forDate
               ELSE /\ forDate' = r.day
                    /\ pc' = "runday"
                    /\ UNCHANGED <<exitCode, exitReason>>
    /\ UNCHANGED <<flagVars, disableSend, dbState, StrategyMap, numPortfolios,
                   ii, iterVars, countVars>>
    /\ UNCHANGED outsideNotifier

\* main.go:357-362: the run-day check, then disableSend = *testFlag.
CheckRunDay ==
    /\ pc = "runday"
    /\ IF ~validRunDay(forDate)
       THEN Fatal("runday") /\ UNCHANGED disableSend
       ELSE /\ disableSend' = testFlag
            /\ pc' = "database"
            /\ UNCHANGED <<exitCode, exitReason>>
    /\ UNCHANGED <<flagVars, forDate, dbState, StrategyMap, numPortfolios,
                   ii, iterVars, countVars>>
    /\ UNCHANGED outsideNotifier

\* main.go:364-372: SetupDatabaseMigrations, then Connect.
SetupDatabase ==
    /\ pc = "database"
    /\ \E migrated \in BOOLEAN, connected \in BOOLEAN :
          IF migrated /\ connected
          THEN /\ dbState' = "connected"
               /\ pc' = "init"
               /\ UNCHANGED <<exitCode, exitReason>>
          ELSE /\ dbState' = "failed"
               /\ Fatal(IF migrated THEN "connect" ELSE "migrate")
    /\ UNCHANGED <<flagVars, forDate, disableSend, StrategyMap, numPortfolios,
                   ii, iterVars, countVars>>
    /\ UNCHANGED outsideNotifier

\* main.go:374-384: the data manager, the strategy map, the saved portfolios.
\* A failed query ends the process in getSavedPortfolios (main.go:50-52).
GetSavedPortfolios ==
    /\ pc = "init"
    /\ StrategyMap' = { "adm" }
    /\ \E queryOk \in BOOLEAN, n \in 0..MaxPortfolios :
          IF queryOk
          THEN /\ numPortfolios' = n
               /\ pc' = "loop"
               /\ UNCHANGED <<exitCode, exitReason>>
          ELSE /\ n = 0
               /\ Fatal("query")
               /\ UNCHANGED numPortfolios
    /\ UNCHANGED <<flagVars, forDate, disableSend, dbState, ii, iterVars,
                   countVars>>
    /\ UNCHANGED outsideNotifier

\* main.go:385-389: the next row and computePortfolioPerformance on it; a
\* failure continues with the following row.
ComputePortfolioPerformance ==
    /\ pc = "loop"
    /\ ii < numPortfolios
    /\ \E row \in [Strategy : Shortcodes, Notifications : NotificationMasks],
          userOk \in BOOLEAN, argsOk \in BOOLEAN, factoryOk \in BOOLEAN,
          computeOk \in BOOLEAN :
          LET stage == ComputeStage(userOk, row.Strategy \in StrategyMap,
                                    argsOk, factoryOk, computeOk)
          IN /\ s' = row
             /\ failed' = stage
             /\ nComputed' = IF stage \in {"compute", "none"}
                             THEN nComputed + 1 ELSE nComputed
             /\ IF stage = "none"
                THEN pc' = "calculate" /\ UNCHANGED ii
                ELSE pc' = "loop" /\ ii' = ii + 1
    /\ updated' = FALSE
    /\ notifyUser' = "none"
    /\ lookups' = NoLookups
    /\ toSend' = <<>>
    /\ requests' = <<>>
    /\ skipped' = 0
    /\ UNCHANGED <<flagVars, forDate, disableSend, exitCode, exitReason,
                   dbState, StrategyMap, numPortfolios, nUpdated, nNotified,
                   apiCalls>>
    /\ UNCHANGED outsideNotifier

\* main.go:390: perf, err := p.CalculatePerformance(forDate); err is not read.
CalculatePerformance ==
    /\ pc = "calculate"
    /\ \E perfOk \in BOOLEAN :
          failed' = IF perfOk THEN "none" ELSE "performance"
    /\ pc' = "update"
    /\ UNCHANGED <<flagVars, forDate, disableSend, exitCode, exitReason,
                   dbState, StrategyMap, numPortfolios, ii, s, updated,
                   notifyUser, lookups, toSend, requests, skipped, countVars>>
    /\ UNCHANGED outsideNotifier

\* main.go:391 and 66-87: the UPDATE of ytd_return and cagr_since_inception.
UpdateSavedPortfolioPerformanceMetrics ==
    /\ pc = "update"
    /\ updated' = TRUE
    /\ nUpdated' = nUpdated + 1
    /\ pc' = "notify"
    /\ UNCHANGED <<flagVars, forDate, disableSend, exitCode, exitReason,
                   dbState, StrategyMap, numPortfolios, ii, s, failed,
                   notifyUser, lookups, toSend, requests, skipped, nComputed,
                   nNotified, apiCalls>>
    /\ UNCHANGED outsideNotifier

\* main.go:392 and 167-221.
ProcessNotifications ==
    /\ pc = "notify"
    /\ nNotified' = nNotified + 1
    /\ \E user \in { "err", "verified", "unverified" } :
          /\ notifyUser' = user
          /\ IF user = "err"
             THEN /\ UNCHANGED <<lookups, toSend, requests, skipped, apiCalls>>
             ELSE \E lw \in LookupResults(forDate,
                              BitAnd(s.Notifications, weekly) = weekly),
                     lm \in LookupResults(forDate,
                              BitAnd(s.Notifications, monthly) = monthly),
                     ly \in LookupResults(forDate,
                              BitAnd(s.Notifications, annually) = annually),
                     apiErrs \in SUBSET { "Daily", "Weekly" } :
                     LET lk == [week |-> lw, month |-> lm, year |-> ly]
                         send == ToSendFor(s.Notifications, forDate, lk)
                         sent == SendLoop(send, user = "verified",
                                          disableSend, apiErrs)
                     IN /\ lookups' = lk
                        /\ toSend' = send
                        /\ requests' = sent.requests
                        /\ skipped' = sent.skipped
                        /\ apiCalls' = apiCalls + Len(sent.requests)
    /\ pc' = "limit"
    /\ UNCHANGED <<flagVars, forDate, disableSend, exitCode, exitReason,
                   dbState, StrategyMap, numPortfolios, ii, s, failed, updated,
                   nComputed, nUpdated>>
    /\ UNCHANGED outsideNotifier

\* main.go:393-395: the --limit test at the end of the loop body.
LimitReached == limitFlag # 0 /\ limitFlag >= ii

CheckLimit ==
    /\ pc = "limit"
    /\ IF LimitReached
       THEN /\ pc' = "exited"
            /\ exitReason' = "limit"
            /\ UNCHANGED <<ii, exitCode>>
       ELSE /\ pc' = "loop"
            /\ ii' = ii + 1
            /\ UNCHANGED <<exitCode, exitReason>>
    /\ UNCHANGED <<flagVars, forDate, disableSend, dbState, StrategyMap,
                   numPortfolios, iterVars, countVars>>
    /\ UNCHANGED outsideNotifier

\* main.go:396-397: the range loop is exhausted and main returns.
Return ==
    /\ pc = "loop"
    /\ ii >= numPortfolios
    /\ pc' = "exited"
    /\ exitReason' = "done"
    /\ UNCHANGED <<flagVars, forDate, disableSend, exitCode, dbState,
                   StrategyMap, numPortfolios, ii, iterVars, countVars>>
    /\ UNCHANGED outsideNotifier

NotifierNext ==
    \/ ParseFlags
    \/ CheckRunDay
    \/ SetupDatabase
    \/ GetSavedPortfolios
    \/ ComputePortfolioPerformance
    \/ CalculatePerformance
    \/ UpdateSavedPortfolioPerformanceMetrics
    \/ ProcessNotifications
    \/ CheckLimit
    \/ Return

NotifierInit ==
    NotifierStart /\ HandlerIdle /\ TiingoIdle /\ AdmIdle /\ AnalyticsIdle
    /\ FredIdle

SpecNotifier == NotifierInit /\ [][NotifierNext]_vars

\* ------------------------------------------------------- notifier claims

\* The calendar facts the run-date claims are stated against: 2021-01-02 and
\* 2021-01-03 are a Saturday and a Sunday, 2021-01-01 a Friday and 2021-01-04
\* a Monday; day 18631 is 2021-01-04 and day 18632 is 2021-01-05.
RunDateIsWeekend ==
    \/ ~dateFlag.unset /\ dateFlag.y = 2021 /\ dateFlag.m = 1 /\ dateFlag.d \in {2, 3}
    \/ dateFlag.unset /\ nowDay = 18631

RunDateIsWeekday ==
    \/ ~dateFlag.unset /\ dateFlag.y = 2021 /\ dateFlag.m = 1 /\ dateFlag.d = 1
    \/ dateFlag.unset /\ nowDay = 18632

\* C1: with --limit N (N >= 1) at most N saved portfolios are processed
\* (performance computation, metrics update, notifications).
C1_AtMostLimitProcessed ==
    limitFlag >= 1 =>
        /\ nComputed <= limitFlag
        /\ nUpdated <= limitFlag
        /\ nNotified <= limitFlag

\* C2: a portfolio whose processing failed at any stage gets no metrics
\* update and no notification, and the loop goes on to the rows after it.
C2_FailedPortfolioSkipped ==
    /\ failed # "none" => ~updated /\ toSend = <<>> /\ requests = <<>>
    /\ (pc = "exited" /\ exitReason \in {"done", "limit"} /\ failed # "none")
          => ii >= numPortfolios

\* C3: on a Saturday or Sunday run date the notifier exits with a non-zero
\* status before it touches the database, computes, updates or sends; on a
\* weekday the run-day check never ends the run.
C3_WeekendExitsEarly ==
    /\ (RunDateIsWeekend /\ pc \notin {"flags", "runday"})
          => /\ pc = "exited"
             /\ exitReason = "runday"
             /\ exitCode # 0
             /\ dbState = "untouched"
             /\ nComputed = 0 /\ nUpdated = 0 /\ nNotified = 0 /\ apiCalls = 0
    /\ RunDateIsWeekday => exitReason # "runday"

C3_Witness ==
    RunDateIsWeekend /\ pc = "exited" /\ exitCode = 1 /\ dbState = "untouched"

\* C4: under --test no request reaches the mail service, while portfolios
\* are still computed and their metrics updated.
C4_TestSendsNothing ==
    testFlag =>
        /\ apiCalls = 0
        /\ requests = <<>>
        /\ (pc = "limit" /\ notifyUser = "verified") => skipped = Len(toSend)
        /\ pc \in {"notify", "limit"} => updated /\ nUpdated >= 1

C4_Witness ==
    testFlag /\ pc = "limit" /\ skipped >= 2 /\ updated /\ apiCalls = 0

HasBit(m, bit) == (m \div bit) % 2 = 1

Selected(freq) == \E k \in 1..Len(toSend) : toSend[k] = freq

IsLastTradingDay(lookup) ==
    lookup.called /\ ~lookup.err /\ lookup.day = forDate

\* C5 as stated: the four frequencies are selected by their own bit and
\* their own last-trading-day answer, whatever else happens.
C5_FrequenciesByBit ==
    pc = "limit" =>
        /\ Selected("Daily") <=> HasBit(s.Notifications, 16)
        /\ Selected("Weekly") <=>
              HasBit(s.Notifications, 256) /\ IsLastTradingDay(lookups.week)
        /\ Selected("Monthly") <=>
              HasBit(s.Notifications, 4096) /\ IsLastTradingDay(lookups.month)
        /\ Selected("Annually") <=>
              HasBit(s.Notifications, 65536) /\ IsLastTradingDay(lookups.year)

\* C5 amended: the same, when processNotifications finds the user; when its
\* user lookup fails nothing is selected.
C5_FrequenciesByBitWhenUserFound ==
    pc = "limit" =>
        IF notifyUser = "err" THEN toSend = <<>> /\ requests = <<>>
        ELSE C5_FrequenciesByBit

C5_Witness ==
    /\ pc = "limit"
    /\ notifyUser # "err"
    /\ s.Notifications = 65808
    /\ lookups.week.err
    /\ toSend = <<"Daily", "Annually">>

\* ------------------------------------------------------------------ handler

\* The largest number of IntializeStrategyMap calls the model counts.
MaxInitCalls == 2

\* strategies.AcceleratingDualMomentumInfo (adm.go:29-66), the fields the
\* handlers read.
AcceleratingDualMomentumInfo ==
    [Shortcode |-> "adm", Name |-> "Accelerating Dual Momentum",
     Version |-> "1.0.0"]

\* handler.strategyList (part_000:13-15).
strategyList == << AcceleratingDualMomentumInfo >>

\* m[k] = v on a Go map.
MapSet(m, k, v) ==
    [x \in (DOMAIN m) \cup {k} |-> IF x = k THEN v ELSE m[x]]

\* The registration loop keyed by the strategy's Name.
RECURSIVE RegisterByName(_, _)
RegisterByName(m, list) ==
    IF list = <<>> THEN m
    ELSE RegisterByName(MapSet(m, Head(list).Name, Head(list)), Tail(list))

\* The loop of IntializeStrategyMap (part_000:21-24).
RECURSIVE Register(_, _)
Register(m, list) ==
    IF list = <<>> THEN m
    ELSE Register(MapSet(m, Head(list).Shortcode, Head(list)), Tail(list))

\* fiber.ErrNotFound, fiber.ErrBadRequest and c.JSON(...).
ErrNotFound == [status |-> 404, body |-> "Not Found"]
ErrBadRequest == [status |-> 400, body |-> "Bad Request"]
Json(v) == [status |-> 200, body |-> v]
\* A failed type assertion on the token's claims (part_000:49-51).
Panic == [status |-> 0, body |-> "panic"]

\* The ids requests come with.
RequestIds == { "adm", "ADM", "xyz", "" }

\* Request bodies: not JSON, or a JSON object with or without well-typed
\* inTickers and outTicker.
Bodies ==
    { [json |-> FALSE, inTickers |-> "none", outTicker |-> "none"],
      [json |-> TRUE, inTickers |-> "missing", outTicker |-> "string"],
      [json |-> TRUE, inTickers |-> "list", outTicker |-> "number"],
      [json |-> TRUE, inTickers |-> "list", outTicker |-> "string"] }

\* What Compute can end with.
ComputeResults == { "ok", "SymbolNotFound", "ProviderHTTPError", "NoOverlap" }

\* NewAcceleratingDualMomentum's unmarshalling of its two arguments
\* (adm.go:83-94).
FactoryErr(body) == body.inTickers # "list" \/ body.outTicker # "string"

\* RunStrategy (part_000:42-78) as a function of the request.
RunStrategyResponse(m, id, hasClaim, body, computed) ==
    IF id \in DOMAIN m
    THEN IF ~hasClaim THEN Panic
         ELSE IF ~body.json THEN ErrBadRequest
         ELSE IF FactoryErr(body) THEN ErrBadRequest
         ELSE IF computed # "ok" THEN ErrBadRequest
         ELSE Json("performance")
    ELSE ErrNotFound

IntializeStrategyMap ==
    /\ initCalls < MaxInitCalls
    /\ strategyMap' = Register(strategyMap, strategyList)
    /\ initCalls' = initCalls + 1
    /\ UNCHANGED <<request, response>>
    /\ UNCHANGED outsideHandler

ListStrategies ==
    /\ request' = [op |-> "ListStrategies", id |-> "", inits |-> initCalls]
    /\ response' = Json(strategyList)
    /\ UNCHANGED <<strategyMap, initCalls>>
    /\ UNCHANGED outsideHandler

\* GetStrategy storing what it looked up under the requested id.
GetStrategyInserting ==
    /\ \E id \in RequestIds :
          /\ request' = [op |-> "GetStrategy", id |-> id, inits |-> initCalls]
          /\ IF id \in DOMAIN strategyMap
             THEN response' = Json(strategyMap[id]) /\ UNCHANGED strategyMap
             ELSE /\ response' = ErrNotFound
                  /\ strategyMap' = MapSet(strategyMap, id,
                        [Shortcode |-> "", Name |-> "", Version |-> ""])
    /\ UNCHANGED initCalls
    /\ UNCHANGED outsideHandler

\* GetStrategy (part_000:33-39).
GetStrategy ==
    /\ \E id \in RequestIds :
          /\ request' = [op |-> "GetStrategy", id |-> id, inits |-> initCalls]
          /\ response' = IF id \in DOMAIN strategyMap
                         THEN Json(strategyMap[id])
                         ELSE ErrNotFound
    /\ UNCHANGED <<strategyMap, initCalls>>
    /\ UNCHANGED outsideHandler

RunStrategy ==
    /\ \E id \in RequestIds, hasClaim \in BOOLEAN, body \in Bodies,
          computed \in ComputeResults :
          /\ request' = [op |-> "RunStrategy", id |-> id, inits |-> initCalls,
                         hasClaim |-> hasClaim, body |-> body,
                         computed |-> computed]
          /\ response' = RunStrategyResponse(strategyMap, id, hasClaim, body,
                                             computed)
    /\ UNCHANGED <<strategyMap, initCalls>>
    /\ UNCHANGED outsideHandler

HandlerNext ==
    \/ IntializeStrategyMap
    \/ ListStrategies
    \/ GetStrategy
    \/ RunStrategy

HandlerInit ==
    HandlerIdle /\ NotifierIdle /\ TiingoIdle /\ AdmIdle /\ AnalyticsIdle
    /\ FredIdle

SpecHandler == HandlerInit /\ [][HandlerNext]_vars

\* ------------------------------------------------------- handler claims

\* The shortcodes of the strategies the handler package lists.
Registered == { strategyList[k].Shortcode : k \in DOMAIN strategyList }

\* What Compute raised, when the request got as far as Compute.
Raised ==
    IF /\ request.id \in Registered
       /\ request.hasClaim
       /\ request.body.json
       /\ request.body.inTickers = "list"
       /\ request.body.outTicker = "string"
    THEN request.computed ELSE "not run"

\* C6: RunStrategy answers 400 to an unparsable body or a factory error, 404
\* to an unknown shortcode or a SymbolNotFound of Compute, 500 to any other
\* failure of Compute, and the result on success.
C6_StatusByFailureKind ==
    (request.op = "RunStrategy" /\ request.inits >= 1 /\ response # Panic) =>
        IF request.id \notin Registered THEN response.status = 404
        ELSE IF Raised = "not run" THEN response.status = 400
        ELSE IF Raised = "SymbolNotFound" THEN response.status = 404
        ELSE IF Raised = "ok" THEN response = Json("performance")
        ELSE response.status = 500

\* C7: once the registry is initialized GetStrategy answers a registered
\* shortcode with the descriptor of that shortcode and any other id with 404,
\* and ListStrategies answers with exactly the registered descriptors.
C7_LookupByShortcode ==
    request.inits >= 1 =>
        /\ request.op = "GetStrategy" =>
              IF request.id \in Registered
              THEN /\ response.status = 200
                   /\ response.body.Shortcode = request.id
                   /\ \E k \in DOMAIN strategyList : response.body = strategyList[k]
              ELSE response = ErrNotFound
        /\ request.op = "ListStrategies" =>
              /\ response.status = 200
              /\ { response.body[k] : k \in DOMAIN response.body }
                    = { strategyMap[c] : c \in DOMAIN strategyMap }

C7_Witness ==
    /\ request.op = "GetStrategy"
    /\ request.inits >= 1
    /\ request.id = "adm"
    /\ response.status = 200
    /\ response.body.Shortcode = "adm"

\* C8: once IntializeStrategyMap has run, no further call of it and no
\* request changes the shortcode-to-descriptor map, and every shortcode of
\* the map is the shortcode of the one descriptor stored under it.
C8_RegistryWriteOnce ==
    [][ initCalls >= 1 =>
           /\ strategyMap' = strategyMap
           /\ \A c \in DOMAIN strategyMap' : strategyMap'[c].Shortcode = c
           /\ Cardinality(DOMAIN strategyMap') <= Len(strategyList) ]_hvars

C8_Witness ==
    initCalls >= 2 /\ request.op = "RunStrategy" /\ request.inits >= 2
    /\ DOMAIN strategyMap = { "adm" }

\* ------------------------------------------------------------------- tiingo

\* The frequencies GetDataForPeriod accepts (part_000:237-242), and one it
\* does not.
validFrequencies ==
    { "FrequencyDaily", "FrequencyWeekly", "FrequencyMonthly",
      "FrequencyAnnualy" }
Frequencies == { "FrequencyDaily", "FrequencyMonthly", "hourly" }

\* The metric switch of GetDataForPeriod (part_000:353-410): the CSV column
\* each metric reads; any other metric is un-supported.
MetricColumn ==
    [ MetricOpen |-> "open", MetricHigh |-> "high", MetricLow |-> "low",
      MetricClose |-> "close", MetricVolume |-> "volume",
      MetricAdjustedOpen |-> "adjOpen", MetricAdjustedHigh |-> "adjHigh",
      MetricAdjustedLow |-> "adjLow", MetricAdjustedClose |-> "adjClose" ]
Metrics == (DOMAIN MetricColumn) \cup { "MetricDividend" }

\* The columns of Tiingo's EOD CSV.
CsvColumns ==
    { "date", "close", "high", "low", "open", "volume", "adjClose", "adjHigh",
      "adjLow", "adjOpen", "adjVolume", "divCash", "splitFactor" }

\* Response bodies as imports.LoadFromCSV sees them: one it cannot parse, and
\* parsed tables with all columns, without date, without the adjusted ones.
CsvBodies ==
    { [parses |-> FALSE, columns |-> {}],
      [parses |-> TRUE, columns |-> CsvColumns],
      [parses |-> TRUE, columns |-> CsvColumns \ { "date" }],
      [parses |-> TRUE, columns |-> { "date", "close", "high", "low", "open",
                                      "volume" }] }

\* Response bodies as LastTradingDay's json.Unmarshal and time.Parse see them.
JsonBodies == { "not json", "no rows", "bad date", "rows" }

\* The statuses the provider answers with.
Statuses == { 101, 200, 304, 404, 500 }

\* What http.Get and ioutil.ReadAll can come back with: no response, a
\* response whose body cannot be read, a response with a status and a body.
Answers(bodies, none) ==
    { [transportErr |-> TRUE, readErr |-> FALSE, status |-> 0, body |-> none] }
    \cup { [transportErr |-> FALSE, readErr |-> TRUE, status |-> st,
            body |-> none] : st \in Statuses }
    \cup { [transportErr |-> FALSE, readErr |-> FALSE, status |-> st,
            body |-> b] : st \in Statuses, b \in bodies }

\* No request was made.
NoCsv == [parses |-> FALSE, columns |-> {}]
NoAnswer == [transportErr |-> FALSE, readErr |-> FALSE, status |-> 0,
             body |-> NoCsv]
NoJsonAnswer == [transportErr |-> FALSE, readErr |-> FALSE, status |-> 0,
                 body |-> "none"]

\* imports.LoadFromCSV: a frame, or no frame and an error.
LoadFromCSV(body) ==
    IF body.parses THEN [frame |-> TRUE, columns |-> body.columns, err |-> FALSE]
    ELSE [frame |-> FALSE, columns |-> {}, err |-> TRUE]

Err(what, status) == [kind |-> "error", err |-> what, status |-> status]

\* The status test of both provider calls (part_000:148 and 295).
IsErrorStatus(status) == status >= 400

\* tiingo.GetDataForPeriod from the status test on (part_000:295-419).
\* The error of LoadFromCSV is overwritten with nil (part_000:341) and res is
\* used as it is; a method call on a nil frame panics.
DataFromResponse(symbol, metric, status, body) ==
    IF IsErrorStatus(status) THEN Err("http", status)
    ELSE LET res == LoadFromCSV(body)
         IN IF ~res.frame THEN [kind |-> "panic"]
            ELSE IF "date" \notin res.columns THEN Err("time series", 0)
            ELSE IF metric \notin DOMAIN MetricColumn THEN Err("metric", 0)
            ELSE IF MetricColumn[metric] \notin res.columns
                 THEN Err("column", 0)
            ELSE [kind |-> "frame", columns |-> <<"DATE", symbol>>,
                  values |-> MetricColumn[metric]]

\* tiingo.GetDataForPeriod up to its request (part_000:236-264).  With an
\* invalid frequency it returns at once and no request is made; otherwise it
\* is inside http.Get(url), which has neither a context nor a timeout.
GetDataForPeriod ==
    /\ ~waiting
    /\ \E metric \in Metrics, frequency \in Frequencies :
          /\ call' = [fn |-> "GetDataForPeriod", symbol |-> "VFINX",
                      metric |-> metric, frequency |-> frequency,
                      answer |-> NoAnswer]
          /\ result' = IF frequency \in validFrequencies THEN NoResult
                       ELSE Err("frequency", 0)
          /\ waiting' = (frequency \in validFrequencies)
    /\ UNCHANGED outsideTiingo

\* tiingo.GetDataForPeriod from the return of http.Get to its own return
\* (part_000:264-420).
GetDataForPeriodReturns ==
    /\ waiting
    /\ call.fn = "GetDataForPeriod"
    /\ \E answer \in Answers(CsvBodies, NoCsv) :
          /\ call' = [call EXCEPT !.answer = answer]
          /\ result' =
                IF answer.transportErr THEN Err("transport", 0)
                ELSE IF answer.readErr THEN Err("read", 0)
                ELSE DataFromResponse(call.symbol, call.metric, answer.status,
                                      answer.body)
    /\ waiting' = FALSE
    /\ UNCHANGED outsideTiingo

\* tiingo.LastTradingDay up to its request (part_000:133-137): it is inside
\* http.Get(url), which has neither a context nor a timeout.
LastTradingDay ==
    /\ ~waiting
    /\ \E frequency \in { "weekly", "monthly", "annually" } :
          call' = [fn |-> "LastTradingDay", frequency |-> frequency,
                   answer |-> NoJsonAnswer]
    /\ result' = NoResult
    /\ waiting' = TRUE
    /\ UNCHANGED outsideTiingo

\* tiingo.LastTradingDay from the return of http.Get to its own return
\* (part_000:137-213).
LastTradingDayReturns ==
    /\ waiting
    /\ call.fn = "LastTradingDay"
    /\ \E answer \in Answers(JsonBodies, "none") :
          /\ call' = [call EXCEPT !.answer = answer]
          /\ result' =
                IF answer.transportErr THEN Err("transport", 0)
                ELSE IF IsErrorStatus(answer.status)
                     THEN Err("http", answer.status)
                ELSE IF answer.readErr THEN Err("read", 0)
                ELSE IF answer.body = "not json" THEN Err("json", 0)
                ELSE IF answer.body = "no rows" THEN Err("no data", 0)
                ELSE IF answer.body = "bad date" THEN Err("date", 0)
                ELSE [kind |-> "date"]
    /\ waiting' = FALSE
    /\ UNCHANGED outsideTiingo

TiingoNext ==
    \/ GetDataForPeriod
    \/ GetDataForPeriodReturns
    \/ LastTradingDay
    \/ LastTradingDayReturns

TiingoInit ==
    TiingoIdle /\ NotifierIdle /\ HandlerIdle /\ AdmIdle /\ AnalyticsIdle
    /\ FredIdle

SpecTiingo == TiingoInit /\ [][TiingoNext]_vars

\* The callers keep calling and the calls' own statements keep running once
\* http.Get has returned; when the provider answers is not the program's to
\* decide, and nothing in either call ends the wait.
SpecTiingoFair ==
    SpecTiingo /\ WF_vars(GetDataForPeriod) /\ WF_vars(LastTradingDay)

\* -------------------------------------------------------- tiingo claims

\* The provider answered the call: the request was made, a response came back
\* and its body was read.
Answered ==
    /\ call.fn \in { "GetDataForPeriod", "LastTradingDay" }
    /\ call.answer.status # 0
    /\ ~call.answer.transportErr
    /\ ~call.answer.readErr

\* C9: whenever the provider's answer has a status outside 200..299, both
\* calls return an HTTP error carrying that status, and no frame or date.
C9_Non2xxIsHttpError ==
    (Answered /\ call.answer.status \notin 200..299) =>
        /\ result.kind = "error"
        /\ result.err = "http"
        /\ result.status = call.answer.status

\* C10: when the body is not the expected CSV, GetDataForPeriod returns the
\* loader's parse error and no frame; it never goes on without a parse result.
C10_ParseErrorSurfaced ==
    (/\ Answered
     /\ call.fn = "GetDataForPeriod"
     /\ call.answer.status \in 200..299
     /\ ~call.answer.body.parses) =>
        /\ result.kind = "error"
        /\ result.err = "parse"

\* The nine metric names of the data manager with the provider column each
\* one stands for, and the four frequencies.
NineMetrics ==
    { <<"MetricOpen", "open">>, <<"MetricHigh", "high">>,
      <<"MetricLow", "low">>, <<"MetricClose", "close">>,
      <<"MetricVolume", "volume">>, <<"MetricAdjustedOpen", "adjOpen">>,
      <<"MetricAdjustedHigh", "adjHigh">>, <<"MetricAdjustedLow", "adjLow">>,
      <<"MetricAdjustedClose", "adjClose">> }
FourFrequencies ==
    { "FrequencyDaily", "FrequencyWeekly", "FrequencyMonthly",
      "FrequencyAnnualy" }

\* GetDataForPeriod has returned.
DataCallReturned == call.fn = "GetDataForPeriod" /\ ~waiting

\* C11: GetDataForPeriod accepts only the closed sets of names: for a metric
\* outside the nine or a frequency outside the four it returns an error and
\* no frame, and for each of the nine metrics, when the provider's table has
\* the date and that metric's column, it returns the frame (DATE, symbol)
\* whose values are that column.
C11_ClosedSetsOfNames ==
    DataCallReturned =>
        /\ (\/ call.metric \notin { m[1] : m \in NineMetrics }
            \/ call.frequency \notin FourFrequencies) =>
               result.kind = "error"
        /\ \A m \in NineMetrics :
              (/\ call.metric = m[1]
               /\ call.frequency \in FourFrequencies
               /\ Answered
               /\ call.answer.status \in 200..299
               /\ call.answer.body.parses
               /\ { "date", m[2] } \subseteq call.answer.body.columns) =>
                  /\ result.kind = "frame"
                  /\ result.columns = <<"DATE", call.symbol>>
                  /\ result.values = m[2]

\* C12: every provider call returns in the end: a call that is waiting for
\* the provider's answer leads to that call having returned, with the answer
\* or with a timeout.
C12_CallEventuallyReturns == waiting ~> ~waiting

\* ---------------------------------------------------------------------- adm

\* Strings are sequences of code points: "SPY", "SCZ" and "TLT", the tickers
\* of the suggested parameters (adm.go:59-62).
SPY == <<83, 80, 89>>
SCZ == <<83, 67, 90>>
TLT == <<84, 76, 84>>

\* strings.ToUpper on ASCII: the letters a..z move down by 32.
ToUpper(str) ==
    [i \in DOMAIN str |->
        IF str[i] >= 97 /\ str[i] <= 122 THEN str[i] - 32 ELSE str[i]]

\* util.ArrToUpper (adm.go:89): every element of the slice is upper-cased in
\* place.
ArrToUpper(arr) == [i \in DOMAIN arr |-> ToUpper(arr[i])]

\* The spellings of a ticker a request may carry: upper case, lower case and
\* a mix of the two.
Styles == { "upper", "lower", "mixed" }
Spell(str, style) ==
    [i \in DOMAIN str |->
        IF style = "lower" \/ (style = "mixed" /\ i = 2) THEN str[i] + 32
        ELSE str[i]]

\* A json.RawMessage of the args map: what kind of JSON value it holds, and
\* its strings.  "missing" is the nil message of an absent key.
Raw(json, items, str) == [json |-> json, items |-> items, str |-> str]
RawInTickers ==
    { Raw("array", <<Spell(SPY, a), Spell(SCZ, a)>>, << >>) : a \in Styles }
    \cup { Raw("array", <<Spell(TLT, "lower")>>, << >>) }
    \cup { Raw(j, << >>, << >>) : j \in { "missing", "null", "string" } }
RawOutTicker ==
    { Raw("string", << >>, Spell(TLT, a)) : a \in Styles }
    \cup { Raw("string", << >>, Spell(SPY, "mixed")) }
    \cup { Raw(j, << >>, << >>) : j \in { "missing", "null", "number" } }

\* json.Unmarshal into a []string and into a string (adm.go:85 and 92): a
\* value of the wrong kind and the empty message are errors; null is not, and
\* leaves the variable as it was.
UnmarshalStrings(raw) ==
    IF raw.json = "array" THEN [err |-> FALSE, v |-> raw.items]
    ELSE IF raw.json = "null" THEN [err |-> FALSE, v |-> << >>]
    ELSE [err |-> TRUE, v |-> << >>]
UnmarshalString(raw) ==
    IF raw.json = "string" THEN [err |-> FALSE, v |-> raw.str]
    ELSE IF raw.json = "null" THEN [err |-> FALSE, v |-> << >>]
    ELSE [err |-> TRUE, v |-> << >>]

\* NewAcceleratingDualMomentum (adm.go:83-106).
NewAcceleratingDualMomentum ==
    /\ admCall = NoAdmCall
    /\ \E inRaw \in RawInTickers, outRaw \in RawOutTicker :
          LET inTickers == UnmarshalStrings(inRaw)
              outTicker == UnmarshalString(outRaw)
              unmarshalErr == inTickers.err \/ outTicker.err
          IN \* the arguments name each symbol once
             /\ ToUpper(outTicker.v) \notin
                    { ToUpper(inTickers.v[i]) : i \in DOMAIN inTickers.v }
             /\ admCall' = [fn |-> "NewAcceleratingDualMomentum",
                            inTickers |-> inRaw, outTicker |-> outRaw]
             /\ adm' = IF unmarshalErr THEN NoInstance
                       ELSE [NoInstance EXCEPT
                               !.made = TRUE,
                               !.inTickers = ArrToUpper(inTickers.v),
                               !.outTicker = ToUpper(outTicker.v)]
             /\ admResult' = [kind |-> IF unmarshalErr THEN "error" ELSE "instance"]
    /\ UNCHANGED <<computes, manager>>
    /\ UNCHANGED outsideAdm

\* time.Time values of the data frames: a calendar day.
Date(y, m, d) == [year |-> y, month |-> m, day |-> d]

\* time.Time.AddDate(0, months, 0): the same day of the month that many months
\* on, a day that the month does not have being a day of the month after it.
AddMonths(t, months) ==
    LET index == t.year * 12 + (t.month - 1) + months
        y == index \div 12
        m == (index % 12) + 1
    IN IF t.day > DaysIn(y, m)
       THEN Date((index + 1) \div 12, ((index + 1) % 12) + 1, t.day - DaysIn(y, m))
       ELSE Date(y, m, t.day)

\* time.Time.AddDate(years, 0, 0): the same month and day of the other year,
\* a 29 February that the year does not have being 1 March.
AddDate(t, years) ==
    IF t.day > DaysIn(t.year + years, t.month)
    THEN Date(t.year + years, t.month + 1, t.day - DaysIn(t.year + years, t.month))
    ELSE Date(t.year + years, t.month, t.day)

\* The managers that the callers of Compute make: data.NewManager alone
\* (the strategy handler), and with Begin and End and Frequency set
\* (computePortfolioPerformance, main.go:99-104), or one of the two.
Managers ==
    { [made |-> TRUE, Begin |-> b, End |-> e,
       Frequency |-> IF b = nullTime \/ e = nullTime THEN "" ELSE "Monthly"] :
        b \in { nullTime, Date(2020, 8, 31) },
        e \in { nullTime, Date(2021, 1, 31) } }

\* time.Now() when Compute runs.
Clock == { Date(2024, 2, 29) }

\* data.NewManager and the assignments of its caller (main.go:99-104).
NewManager ==
    /\ adm.made
    /\ ~manager.made
    /\ manager' \in Managers
    /\ UNCHANGED <<adm, admCall, admResult, computes>>
    /\ UNCHANGED outsideAdm
Before(a, b) ==
    \/ a.year < b.year
    \/ a.year = b.year /\ a.month < b.month
    \/ a.year = b.year /\ a.month = b.month /\ a.day < b.day

\* Monthly rows as the providers date them, months counted from January
\* 2020: closes on the last day of the month, the TB3MS rate on the first.
Closes(first, values) ==
    [i \in DOMAIN values |->
        LET k == first + i - 1
            y == 2020 + (k \div 12)
            m == (k % 12) + 1
        IN [date |-> Date(y, m, DaysIn(y, m)), value |-> values[i]]]
Rates(first, values) ==
    [i \in DOMAIN values |->
        LET k == first + i - 1
        IN [date |-> Date(2020 + (k \div 12), (k % 12) + 1, 1),
            value |-> values[i]]]

\* What the manager has for a symbol: eight months of closes that rise, fall,
\* stay flat, or rise and then fall; three months only; eight later months.
EquityHistories ==
    [ up |-> Closes(0, <<2, 2, 2, 2, 2, 2, 3, 4>>),
      down |-> Closes(0, <<4, 4, 4, 4, 4, 4, 3, 2>>),
      flat |-> Closes(0, <<2, 2, 2, 2, 2, 2, 2, 2>>),
      upDown |-> Closes(0, <<2, 2, 2, 2, 2, 2, 4, 1>>),
      short |-> Closes(5, <<2, 3, 4>>),
      late |-> Closes(8, <<2, 2, 2, 2, 2, 2, 2, 2>>) ]

\* The TB3MS series: a rate of zero through the last month of the closes, a
\* rate of 12 percent that ends one month before it, and a rate of zero that
\* goes on one month after it, at 12 percent.
RateHistories ==
    [ zero |-> Rates(0, <<0, 0, 0, 0, 0, 0, 0, 0>>),
      behind |-> Rates(0, <<12, 12, 12, 12, 12, 12, 12>>),
      ahead |-> Rates(0, <<0, 0, 0, 0, 0, 0, 0, 0, 12>>) ]

\* float64 values as fractions in lowest terms, and NaN.
Gcd(a, b) ==
    LET m == IF a > b THEN a ELSE b
        gcd[x \in 0..m, y \in 0..m] == IF y = 0 THEN x ELSE gcd[y, x % y]
    IN gcd[a, b]
Rat(n, d) ==
    LET g == Gcd(IF n < 0 THEN -n ELSE n, d)
    IN [nan |-> FALSE, num |-> n \div g, den |-> d \div g]
NaN == [nan |-> TRUE, num |-> 0, den |-> 1]
RAdd(a, b) ==
    IF a.nan \/ b.nan THEN NaN
    ELSE Rat(a.num * b.den + b.num * a.den, a.den * b.den)
RSub(a, b) == IF b.nan THEN NaN ELSE RAdd(a, [b EXCEPT !.num = -b.num])
RMul(a, b) ==
    IF a.nan \/ b.nan THEN NaN ELSE Rat(a.num * b.num, a.den * b.den)
RDiv(a, b) ==
    IF a.nan \/ b.nan \/ b.num = 0 THEN NaN
    ELSE IF b.num < 0 THEN Rat(-(a.num * b.den), a.den * (-b.num))
    ELSE Rat(a.num * b.den, a.den * b.num)
RLess(a, b) == a.num * b.den < b.num * a.den

\* dfextras.MergeAndTimeAlign: the inner join of the frames on their dates;
\* names[k] is the value column of frames[k].
MergeAndTimeAlign(names, frames) ==
    LET Dates(f) == { f[i].date : i \in DOMAIN f }
        common == { d \in Dates(frames[1]) :
                      \A k \in DOMAIN frames : d \in Dates(frames[k]) }
        Keep(f) == SelectSeq(f, LAMBDA row : row.date \in common)
        FrameOf(n) == Keep(frames[CHOOSE k \in DOMAIN names : names[k] = n])
    IN [dates |-> [i \in DOMAIN Keep(frames[1]) |-> Keep(frames[1])[i].date],
        cols |-> [n \in { names[k] : k \in DOMAIN names } |->
                    [i \in DOMAIN FrameOf(n) |-> FrameOf(n)[i].value]]]

\* dfextras.TimeTrim: the rows with start <= date <= end.
TimeTrim(rows, start, end) ==
    SelectSeq(rows, LAMBDA row : ~Before(row.date, start)
                                 /\ ~Before(end, row.date))

\* dfextras.Lag: the column moved down by k rows, NaN in the first k.
Lag(k, col) ==
    [i \in DOMAIN col |-> IF i <= k THEN NaN ELSE Rat(col[i - k], 1)]

\* dfextras.Rolling with the summing aggFn of computeScores (adm.go:193-202):
\* the sum of the last `window` values, NaN in the first window - 1 rows.
SumOf(values) ==
    LET sum[k \in 0..Len(values)] ==
            IF k = 0 THEN 0 ELSE sum[k - 1] + values[k]
    IN sum[Len(values)]
Rolling(window, col) ==
    [i \in DOMAIN col |->
        IF i < window THEN NaN
        ELSE Rat(SumOf(SubSeq(col, i - window + 1, i)), 1)]

\* dfextras.DropNA: the rows in which no column is NaN.
DropNA(frame) ==
    LET rows == SelectSeq([i \in DOMAIN frame.dates |-> i],
                          LAMBDA i : \A n \in DOMAIN frame.cols :
                                        ~frame.cols[n][i].nan)
    IN [dates |-> [k \in DOMAIN rows |-> frame.dates[rows[k]]],
        cols |-> [n \in DOMAIN frame.cols |->
                    [k \in DOMAIN rows |-> frame.cols[n][rows[k]]]]]

\* The order of strings.
LexLess(a, b) ==
    \E i \in 1..(Len(b)) :
        /\ \A j \in 1..(i - 1) : j <= Len(a) /\ a[j] = b[j]
        /\ (i > Len(a) \/ a[i] < b[i])

\* ArgMax preferring, among equal values, the name that comes last.
ArgMaxLastName(frame) ==
    [i \in DOMAIN frame.dates |->
        CHOOSE n \in DOMAIN frame.cols :
            \A m \in DOMAIN frame.cols \ { n } :
                \/ RLess(frame.cols[m][i], frame.cols[n][i])
                \/ /\ ~RLess(frame.cols[n][i], frame.cols[m][i])
                   /\ LexLess(m, n)]

\* dfextras.ArgMax: for each row the name of the column with the greatest
\* value; among equal values the name that comes first.
ArgMax(frame) ==
    [i \in DOMAIN frame.dates |->
        CHOOSE n \in DOMAIN frame.cols :
            \A m \in DOMAIN frame.cols \ { n } :
                \/ RLess(frame.cols[m][i], frame.cols[n][i])
                \/ /\ ~RLess(frame.cols[n][i], frame.cols[m][i])
                   /\ LexLess(n, m)]

\* "$RATE.TB3MS" (adm.go:119).
riskFreeSymbol == <<36, 82, 65, 84, 69, 46, 84, 66, 51, 77, 83>>

\* manager.GetMultipleData: the frames of the symbols that were fetched and
\* the symbols that were not; fetched names what the manager has for each.
GetMultipleData(tickers, fetched) ==
    LET symbols == { tickers[k] : k \in DOMAIN tickers }
    IN [prices |-> [sym \in { x \in symbols : fetched[x] # "error" } |->
                      IF sym = riskFreeSymbol THEN RateHistories[fetched[sym]]
                      ELSE EquityHistories[fetched[sym]]],
        errs |-> { x \in symbols : fetched[x] = "error" }]

\* What a stage of Compute hands on: how it ended, the library calls it
\* made, and its values.
Stage(kind, calls, prices, riskFreeRate) ==
    [kind |-> kind, calls |-> calls, prices |-> prices,
     riskFreeRate |-> riskFreeRate]

\* downloadPriceData failing only when no symbol at all was fetched.
downloadFailsWhenAllFail(errs, tickers) ==
    errs = { tickers[k] : k \in DOMAIN tickers }

\* The test of adm.go:123: any reported error fails the download.
downloadFails(errs, tickers) == Cardinality(errs) > 0

\* adm.downloadPriceData (adm.go:113-184).  `fail` names the library call
\* that reports an error when it is reached.  Value(0) and Value(nrows-1) of
\* a series without rows panic, and so does the use of the nil frame that
\* the map of prices gives for a symbol it does not hold.
downloadPriceData(a, fetched, fail) ==
    LET eodNames == a.inTickers \o <<a.outTicker>>
        calls == <<"GetMultipleData", "MergeAndTimeAlign", "TimeTrim">>
        Frame(prices, sym) ==
            IF sym \in DOMAIN prices THEN prices[sym] ELSE << >>
        Insert(mergedEod, startTime, trimmed) ==
            IF trimmed = << >> THEN Stage("panic", calls, << >>, << >>)
            ELSE Stage("ok", calls, mergedEod,
                       IF Before(startTime, trimmed[1].date)
                       THEN <<[date |-> startTime,
                               value |-> trimmed[1].value]>> \o trimmed
                       ELSE trimmed)
        Extend(mergedEod, startTime, endTime, riskFreeRate, last) ==
            IF fail = "TimeTrim" THEN Stage("error", calls, << >>, << >>)
            ELSE Insert(mergedEod, startTime,
                        TimeTrim(IF \/ endTime.month # last.date.month
                                    \/ endTime.year # last.date.year
                                 THEN Append(riskFreeRate,
                                             [date |-> endTime,
                                              value |-> last.value])
                                 ELSE riskFreeRate,
                                 startTime, endTime))
        Align(mergedEod, riskFreeRate) ==
            IF fail = "MergeAndTimeAlign"
            THEN Stage("error", SubSeq(calls, 1, 2), << >>, << >>)
            ELSE IF Len(mergedEod.dates) = 0 \/ riskFreeRate = << >>
            THEN Stage("panic", SubSeq(calls, 1, 2), << >>, << >>)
            ELSE Extend(mergedEod, mergedEod.dates[1],
                        mergedEod.dates[Len(mergedEod.dates)],
                        riskFreeRate, riskFreeRate[Len(riskFreeRate)])
        Merge(got) ==
            IF downloadFails(got.errs, eodNames \o <<riskFreeSymbol>>)
            THEN Stage("error", SubSeq(calls, 1, 1), << >>, << >>)
            ELSE Align(MergeAndTimeAlign(eodNames,
                          [k \in DOMAIN eodNames |->
                              Frame(got.prices, eodNames[k])]),
                       Frame(got.prices, riskFreeSymbol))
    IN Merge(GetMultipleData(eodNames \o <<riskFreeSymbol>>, fetched))

\* adm.computeScores (adm.go:186-260): for each inTicker the mean over the
\* periods 1, 3 and 6 of (((T/TLAGp)-1)*100)-(RISKFREEp/12).  NewDataFrame
\* panics when the series differ in length.
computeScores(a, prices, riskFreeRate, fail) ==
    LET nrows == Len(prices.dates)
        rfr == [i \in DOMAIN riskFreeRate |-> riskFreeRate[i].value]
        Mom(ticker, p, i) ==
            RSub(RMul(RSub(RDiv(Rat(prices.cols[ticker][i], 1),
                                Lag(p, prices.cols[ticker])[i]),
                           Rat(1, 1)),
                      Rat(100, 1)),
                 RDiv(Rolling(p, rfr)[i], Rat(12, 1)))
        Score(ticker, i) ==
            RDiv(RAdd(RAdd(Mom(ticker, 1, i), Mom(ticker, 3, i)),
                      Mom(ticker, 6, i)),
                 Rat(3, 1))
    IN IF fail = "Rolling" THEN [kind |-> "error", momentum |-> << >>]
       ELSE IF Len(rfr) # nrows THEN [kind |-> "panic", momentum |-> << >>]
       ELSE [kind |-> "ok",
             momentum |->
                [dates |-> prices.dates,
                 cols |-> [ticker \in { a.inTickers[k] :
                                          k \in DOMAIN a.inTickers } |->
                             [i \in 1..nrows |-> Score(ticker, i)]]]]

\* portfolio.TargetPortfolio: a deposit on the first date, then, row by
\* row, a sale of what is held and a purchase of the row's ticker whenever
\* the two differ.
TargetPortfolio(target) ==
    LET Held(i) == IF i = 0 THEN << >> ELSE target[i].TICKER
        Trades(i) ==
            IF Held(i - 1) = Held(i) THEN << >>
            ELSE (IF Held(i - 1) = << >> THEN << >>
                  ELSE <<[date |-> target[i].date, kind |-> "sell",
                          symbol |-> Held(i - 1)]>>)
                 \o <<[date |-> target[i].date, kind |-> "buy",
                       symbol |-> Held(i)]>>
        transactions[i \in 0..Len(target)] ==
            IF i = 0
            THEN <<[date |-> target[1].date, kind |-> "deposit",
                    symbol |-> << >>]>>
            ELSE transactions[i - 1] \o Trades(i)
    IN transactions[Len(target)]

\* The Holdings of the measurements of portfolio.CalculatePerformance, one
\* per period: the symbol bought last, on or before the period's date.
MeasuredHoldings(transactions, dates) ==
    [i \in DOMAIN dates |->
        LET buys == SelectSeq(transactions,
                        LAMBDA tx : tx.kind = "buy"
                                    /\ ~Before(dates[i], tx.date))
        IN IF buys = << >> THEN << >> ELSE buys[Len(buys)].symbol]

\* The end of a call of Compute.
Ended(kind, calls, a, scores, target, transactions) ==
    [kind |-> kind, calls |-> calls, adm |-> a, scores |-> scores,
     target |-> target, transactions |-> transactions]
NoFrame == [dates |-> << >>, cols |-> << >>]

\* CurrentSymbol read from the first row of the target frame.
currentSymbolOfFirstRow(target) == target[1].TICKER

\* adm.go:331: the TICKER of the last row of the target frame.
currentSymbol(target) == target[Len(target)].TICKER

\* adm.Compute from the download on (adm.go:277-340).  The error of
\* computeScores is not looked at (adm.go:283); DropNA's result is
\* type-asserted and ArgMax's is renamed before their errors are (adm.go:308
\* and 311), which panics on the nil they come with; Value(-1) of the target
\* frame without rows panics.
ComputeOn(a, fetched, fail) ==
    LET stages == <<"DropNA", "ArgMax", "NameToColumn", "TargetPortfolio">>
        Invest(c, calls, dropped, targetPortfolio) ==
            IF fail = "TargetPortfolio"
            THEN Ended("error", calls, c, dropped, targetPortfolio, << >>)
            ELSE Ended("portfolio", calls, c, dropped, targetPortfolio,
                       TargetPortfolio(targetPortfolio))
        Target(b, calls, dropped, targetPortfolio) ==
            IF targetPortfolio = << >>
            THEN Ended("panic", calls \o SubSeq(stages, 1, 3), b, dropped,
                       targetPortfolio, << >>)
            ELSE Invest([b EXCEPT !.CurrentSymbol =
                                     currentSymbol(targetPortfolio)],
                        calls \o stages, dropped, targetPortfolio)
        Rank(b, calls, dropped, argmax) ==
            Target(b, calls, dropped,
                   [i \in DOMAIN dropped.dates |->
                       [date |-> dropped.dates[i], TICKER |-> argmax[i]]])
        Select(b, calls, dropped) ==
            IF fail = "ArgMax"
            THEN Ended("panic", calls \o SubSeq(stages, 1, 2), b, dropped,
                       << >>, << >>)
            ELSE Rank(b, calls, dropped, ArgMax(dropped))
        Scores(b, calls) ==
            IF b.momentum = << >>
            THEN Ended("panic", calls, b, NoFrame, << >>, << >>)
            ELSE IF fail = "DropNA"
            THEN Ended("panic", calls \o SubSeq(stages, 1, 1), b, NoFrame,
                       << >>, << >>)
            ELSE Select(b, calls,
                   DropNA([dates |-> b.momentum.dates,
                           cols |-> [n \in { b.outTicker }
                                           \cup DOMAIN b.momentum.cols |->
                                       IF n = b.outTicker
                                       THEN [i \in DOMAIN b.momentum.dates |->
                                               Rat(0, 1)]
                                       ELSE b.momentum.cols[n]]]))
        Scored(calls, scored) ==
            IF scored.kind = "panic"
            THEN Ended("panic", calls, a, NoFrame, << >>, << >>)
            ELSE Scores(IF scored.kind = "ok"
                        THEN [a EXCEPT !.momentum = scored.momentum] ELSE a,
                        calls)
        Downloaded(down) ==
            IF down.kind # "ok"
            THEN Ended(down.kind, down.calls, a, NoFrame, << >>, << >>)
            ELSE Scored(down.calls \o <<"Rolling">>,
                        computeScores(a, down.prices, down.riskFreeRate, fail))
    IN Downloaded(downloadPriceData(a, fetched, fail))

\* What the manager has for the symbols of the instance, symbol by symbol;
\* "error" is a symbol it could not fetch.  When a symbol could not be
\* fetched, what it has for the others is not looked at.
Fetches(a) ==
    LET ins == { a.inTickers[k] : k \in DOMAIN a.inTickers }
        all == ins \cup { a.outTicker, riskFreeSymbol }
    IN { [x \in all |-> IF x = riskFreeSymbol THEN rate
                        ELSE IF x = a.outTicker THEN out ELSE in[x]] :
           rate \in DOMAIN RateHistories, out \in { "flat", "late" },
           in \in [ins -> DOMAIN EquityHistories \ { "late" }] }
       \cup { [x \in all |-> IF x \in errs THEN "error"
                             ELSE IF x = riskFreeSymbol THEN "zero"
                             ELSE "flat"] : errs \in (SUBSET all) \ { {} } }

\* The library calls of Compute that can report an error of their own.
Failures ==
    { "none", "MergeAndTimeAlign", "TimeTrim", "Rolling", "DropNA", "ArgMax",
      "TargetPortfolio" }

\* Compute with Begin left where the caller set it.
RequestWindowAsGiven(m, now) ==
    LET End == IF m.End = nullTime THEN now ELSE m.End
        Begin == IF m.Begin = nullTime THEN AddDate(End, -50) ELSE m.Begin
    IN [m EXCEPT !.End = End, !.Begin = Begin, !.Frequency = "Monthly"]

\* The manager when Compute calls GetMultipleData: Begin and End as set at
\* adm.go:264-275, Frequency as set at adm.go:115.
RequestWindow(m, now) ==
    LET End == IF m.End = nullTime THEN now ELSE m.End
        Begin == IF m.Begin = nullTime THEN AddDate(End, -50)
                 ELSE AddMonths(m.Begin, -6)
    IN [m EXCEPT !.End = End, !.Begin = Begin, !.Frequency = "Monthly"]

\* adm.Compute (adm.go:263-340) on the instance the factory returned.  A
\* later call has the same manager, which has for each symbol what it had.
\* A library call that reports an error is one that the call reaches.  A
\* panic ends the process.
Compute ==
    /\ adm.made
    /\ manager.made
    /\ computes < MaxComputes
    /\ admResult.kind # "panic"
    /\ \E fetched \in (IF admCall.fn = "Compute" THEN { admCall.fetched }
                        ELSE Fetches(adm)) :
          \E base \in { ComputeOn(adm, fetched, "none") } :
          \E fail \in { "none" } \cup
                      (Failures \cap { base.calls[k] : k \in DOMAIN base.calls }) :
          \E run \in { IF fail = "none" THEN base
                       ELSE ComputeOn(adm, fetched, fail) } :
          \E now \in Clock :
          \E window \in { RequestWindow(manager, now) } :
          \E download \in { downloadPriceData(adm, fetched, fail) } :
             /\ admCall' = [fn |-> "Compute", fetched |-> fetched,
                            fail |-> fail, manager |-> manager, now |-> now]
             /\ adm' = run.adm
             /\ manager' = window
             /\ admResult' =
                   [kind |-> run.kind, calls |-> run.calls,
                    window |-> window,
                    prices |-> download.prices,
                    riskFreeRate |-> download.riskFreeRate,
                    scores |-> run.scores, target |-> run.target,
                    holdings |->
                        MeasuredHoldings(run.transactions,
                            [i \in DOMAIN run.target |-> run.target[i].date])]
    /\ computes' = computes + 1
    /\ UNCHANGED outsideAdm

AdmNext ==
    \/ NewAcceleratingDualMomentum
    \/ NewManager
    \/ Compute

AdmInit ==
    AdmIdle /\ NotifierIdle /\ HandlerIdle /\ TiingoIdle /\ AnalyticsIdle
    /\ FredIdle

SpecAdm == AdmInit /\ [][AdmNext]_vars

\* ---------------------------------------------------------------- analytics

\* The measurements of a series of portfolio values, one a day.
Measured(values) ==
    [i \in DOMAIN values |-> [Time |-> 86400 * i, Value |-> values[i]]]

\* A series that falls from 13 by each of the depths in turn, back at 13
\* after each fall but the last when ends is "open".
Sawtooth(depths, ends) ==
    [i \in 1..(2 * Len(depths) + (IF ends = "open" THEN 0 ELSE 1)) |->
        IF i % 2 = 1 THEN 13 ELSE 13 - depths[i \div 2]]

\* The measurement series: every short one, and long ones of eleven and
\* twelve falls that grow, shrink, are all alike, or end in a fall.
MeasurementSeries ==
    { Measured(values) :
        values \in UNION { [1..n -> 1..MaxValue] : n \in 0..MaxMeasurements } }
    \cup { Measured(Sawtooth(depths, ends)) :
             depths \in { <<1, 2, 3, 4, 5, 6, 7, 8, 9, 10, 11, 12>>,
                          <<12, 11, 10, 9, 8, 7, 6, 5, 4, 3, 2, 1>>,
                          <<2, 2, 2, 2, 2, 2, 2, 2, 2, 2, 2>>,
                          <<3, 1, 3, 1, 3, 1, 3, 1, 3, 1, 3, 1>> },
             ends \in { "recovered", "open" } }

\* The loss of a value below the peak as value/peak - 1 with the value of
\* the peak in place of the peak.
LossOverValue(value, peak) == Rat(value - peak, value)

\* (v.Value / peak) - 1.0 (go.mod:435 and 439).
LossPercent(value, peak) == Rat(value - peak, peak)

\* One iteration of the loop of DrawDowns (go.mod:427-449) on the
\* measurement v; drawDown is << >> for the nil pointer and <<d>> for a
\* pointer to d.
VisitMeasurement(st, v) ==
    LET Deepen(peak, d, loss) ==
            [st EXCEPT !.peak = peak,
                       !.drawDown =
                           <<IF RLess(loss, d.LossPercent)
                             THEN [d EXCEPT !.End = v.Time,
                                            !.LossPercent = loss]
                             ELSE d>>]
        Below(peak) ==
            IF v.Value - peak < 0
            THEN Deepen(peak,
                        IF st.drawDown = << >>
                        THEN [Begin |-> v.Time, End |-> v.Time, Recovery |-> 0,
                              LossPercent |-> LossPercent(v.Value, peak)]
                        ELSE st.drawDown[1],
                        LossPercent(v.Value, peak))
            ELSE IF st.drawDown # << >>
            THEN [st EXCEPT !.peak = peak,
                            !.drawDown = << >>,
                            !.allDrawDowns =
                                Append(st.allDrawDowns,
                                       [st.drawDown[1] EXCEPT
                                           !.Recovery = v.Time])]
            ELSE [st EXCEPT !.peak = peak]
    IN Below(IF v.Value > st.peak THEN v.Value ELSE st.peak)

\* sort.Slice by LossPercent (go.mod:451-453).  The sort is not stable:
\* drawdowns of equal loss stay in their order or not.
SortSlice(allDrawDowns, stable) ==
    LET Insert(sorted, d) ==
            LET First(e) == \/ RLess(e.LossPercent, d.LossPercent)
                            \/ stable /\ e.LossPercent = d.LossPercent
            IN SelectSeq(sorted, First) \o <<d>>
               \o SelectSeq(sorted, LAMBDA e : ~First(e))
        sorted[k \in 0..Len(allDrawDowns)] ==
            IF k = 0 THEN << >> ELSE Insert(sorted[k - 1], allDrawDowns[k])
    IN sorted[Len(allDrawDowns)]

\* The number of drawdowns DrawDowns returns at most (go.mod:455).
TopDrawDowns == 10

\* Performance.DrawDowns, one iteration of its loop (go.mod:427-449).
DrawDownsVisit ==
    /\ ~perf.built
    /\ perf.visited < Len(perf.Measurements)
    /\ perf' = [VisitMeasurement(perf, perf.Measurements[perf.visited + 1])
                   EXCEPT !.visited = perf.visited + 1]
    /\ UNCHANGED outsideAnalytics

\* Performance.DrawDowns after its loop, or without measurements
\* (go.mod:419-421 and 451-455), and the assignment of the bundle in
\* BuildMetricsBundle (go.mod:405-414).
DrawDownsReturn ==
    /\ ~perf.built
    /\ perf.visited = Len(perf.Measurements)
    /\ \E stable \in BOOLEAN :
       \E sorted \in { SortSlice(perf.allDrawDowns, stable) } :
          perf' = [perf EXCEPT
                      !.built = TRUE,
                      !.DrawDowns =
                          SubSeq(sorted, 1,
                                 IF TopDrawDowns > Len(sorted)
                                 THEN Len(sorted) ELSE TopDrawDowns)]
    /\ UNCHANGED outsideAnalytics

AnalyticsNext ==
    \/ DrawDownsVisit
    \/ DrawDownsReturn

\* A Performance with its measurements, at the call of DrawDowns: peak is
\* the first measurement's value (go.mod:425).
AnalyticsInit ==
    /\ perf \in { [NoPerformance EXCEPT
                      !.Measurements = m,
                      !.peak = IF m = << >> THEN 0 ELSE m[1].Value] :
                    m \in MeasurementSeries }
    /\ NotifierIdle /\ HandlerIdle /\ TiingoIdle /\ AdmIdle /\ FredIdle

SpecAnalytics == AnalyticsInit /\ [][AnalyticsNext]_vars


\* ------------------------------------------------------------- adm claims

\* The factory was the last operation called.
FactoryCalled == admCall.fn = "NewAcceleratingDualMomentum"

\* Every code point of the string is outside a..z.
IsUpper(str) == \A i \in DOMAIN str : str[i] < 97 \/ str[i] > 122

\* The two strings are the same but for the case of their letters.
SameButCase(a, b) ==
    /\ DOMAIN a = DOMAIN b
    /\ \A i \in DOMAIN a :
          \/ a[i] = b[i]
          \/ a[i] \in 97..122 /\ b[i] = a[i] - 32
          \/ b[i] \in 97..122 /\ a[i] = b[i] - 32

\* C18: the factory upper-cases its parameters: the instance's ticker fields
\* are all upper case and are the arguments but for letter case (so that
\* arguments differing only in case give identical fields), and a missing or
\* mistyped inTickers or outTicker gives an error and no instance.
C18_FactoryUpperCases ==
    FactoryCalled =>
        IF admCall.inTickers.json = "array" /\ admCall.outTicker.json = "string"
        THEN /\ admResult.kind = "instance"
             /\ adm.made
             /\ DOMAIN adm.inTickers = DOMAIN admCall.inTickers.items
             /\ \A i \in DOMAIN adm.inTickers :
                   /\ IsUpper(adm.inTickers[i])
                   /\ SameButCase(adm.inTickers[i], admCall.inTickers.items[i])
             /\ IsUpper(adm.outTicker)
             /\ SameButCase(adm.outTicker, admCall.outTicker.str)
        ELSE /\ admResult.kind = "error"
             /\ ~adm.made

\* Compute was the last operation called.
ComputeCalled == admCall.fn = "Compute"

\* The required symbols for which GetMultipleData reported an error.
NotFetched ==
    { x \in DOMAIN admCall.fetched : admCall.fetched[x] = "error" }

\* The call returned neither a portfolio nor any part of one.
NoPortfolio == admResult.target = << >> /\ admResult.holdings = << >>

\* C13: when GetMultipleData reports an error for any required symbol (an
\* inTicker, the outTicker or $RATE.TB3MS), Compute returns an error and no
\* portfolio, whichever of the other symbols were fetched.
C13_FetchErrorFailsCompute ==
    (ComputeCalled /\ NotFetched # {}) =>
        admResult.kind = "error" /\ NoPortfolio

\* Compute was called with some required symbols fetched and others not.
C13_SomeFetchedSomeNot ==
    /\ ComputeCalled
    /\ NotFetched # {}
    /\ NotFetched # DOMAIN admCall.fetched
    /\ admResult.kind = "error"

\* C14: every stage of Compute that reports an error makes Compute return
\* an error with no portfolio, and the stage that failed is the last that
\* ran.
C14_FailedStageFailsCompute ==
    (ComputeCalled /\ admCall.fail # "none") =>
        /\ admResult.kind = "error"
        /\ NoPortfolio
        /\ admResult.calls[Len(admResult.calls)] = admCall.fail

\* The dates on which every in and out ticker of the call has a close.
CommonDates ==
    LET equities == DOMAIN admCall.fetched \ { riskFreeSymbol }
        DatesOf(x) ==
            { EquityHistories[admCall.fetched[x]][i].date :
                i \in DOMAIN EquityHistories[admCall.fetched[x]] }
    IN { d \in UNION { DatesOf(x) : x \in equities } :
           \A x \in equities : d \in DatesOf(x) }

\* Every symbol was fetched and every library call succeeded, but the join
\* of the closes has no row (NoOverlap), or too few for a row to have a
\* six-month momentum (InsufficientHistory).
DataGap ==
    /\ ComputeCalled
    /\ admCall.fail = "none"
    /\ NotFetched = {}
    /\ \/ CommonDates = {}
       \/ adm.inTickers # << >> /\ Cardinality(CommonDates) <= 6

\* C15: Compute reports a data gap as an error: it neither returns a
\* portfolio nor crashes when the joined series have no rows or less than
\* six months of history.
C15_DataGapsAreErrors == DataGap => admResult.kind = "error"

\* Compute returned a portfolio.
Succeeded == ComputeCalled /\ admResult.kind = "portfolio"

\* The score of the inTicker in row i of the frame left by DropNA.
InScores(i) ==
    { admResult.scores.cols[adm.inTickers[k]][i] : k \in DOMAIN adm.inTickers }

\* The names whose score in row i is exactly zero.
ZeroNames(i) ==
    { n \in DOMAIN admResult.scores.cols :
        admResult.scores.cols[n][i] = Rat(0, 1) }

C16_InTickerAtZeroWins ==
    /\ Succeeded
    /\ \E i \in DOMAIN admResult.target :
          /\ \A score \in InScores(i) : ~RLess(Rat(0, 1), score)
          /\ admResult.target[i].TICKER # adm.outTicker

\* C17: after a successful Compute CurrentSymbol is the TICKER of the last
\* row of the target frame, which is also the holding of the last
\* measurement of the returned portfolio.
C17_CurrentSymbolIsLastTarget ==
    Succeeded =>
        /\ adm.CurrentSymbol = admResult.target[Len(admResult.target)].TICKER
        /\ adm.CurrentSymbol = admResult.holdings[Len(admResult.holdings)]

\* A successful Compute whose target changes between its first and its
\* last row.
C17_TargetChanged ==
    /\ Succeeded
    /\ admResult.target[1].TICKER
          # admResult.target[Len(admResult.target)].TICKER

\* ------------------------------------------------------------------ metrics

\* Measurements on some of four dates, with every value on each; and monthly
\* measurements of value 1 with every percent return and risk-free value on
\* each.  Time is the date of time.Unix(Time, 0).
DatedSeries ==
    LET grid == <<Date(2018, 2, 28), Date(2019, 2, 28), Date(2019, 3, 1),
                  Date(2020, 2, 29)>>
        Nth(on, k) ==
            CHOOSE i \in on : Cardinality({ j \in on : j < i }) = k - 1
    IN { [k \in 1..Cardinality(on) |->
            [Time |-> grid[Nth(on, k)], Value |-> values[k],
             PercentReturn |-> Rat(0, 1), RiskFreeValue |-> 1]] :
           on \in SUBSET (1..4), values \in [1..4 -> 1..MaxValue] }
ReturnSeries ==
    { [k \in 1..n |->
          [Time |-> Date(2020, k, 1), Value |-> 1,
           PercentReturn |-> Rat(returns[k], 2),
           RiskFreeValue |-> riskFree[k]]] :
        returns \in [1..MaxReturns -> { -1, 0, 1, 2 }],
        riskFree \in [1..MaxReturns -> { 1, 2 }],
        n \in 1..MaxReturns }

\* A float64 for which only its class, its sign and its square matter: the
\* value of the given sign whose square is the fraction; NaN; an infinity.
Root(sign, square) ==
    IF square.num = 0 THEN [class |-> "finite", sign |-> 0, square |-> square]
    ELSE [class |-> "finite", sign |-> sign, square |-> square]
Quotient(num, square) ==
    IF square.nan THEN [class |-> "NaN"]
    ELSE IF square.num = 0
    THEN [class |-> IF num.num = 0 THEN "NaN"
                    ELSE IF num.num > 0 THEN "+Inf" ELSE "-Inf"]
    ELSE Root(IF num.num > 0 THEN 1 ELSE -1,
              RDiv(RMul(Rat(12, 1), RMul(num, num)), square))

\* The sum of a list of fractions.
RSum(xs) ==
    LET sum[k \in 0..Len(xs)] ==
            IF k = 0 THEN Rat(0, 1) ELSE RAdd(sum[k - 1], xs[k])
    IN sum[Len(xs)]

\* Performance.PeriodCagr (go.mod:539-561).  The result is 0, or the
\* period-th root of final/initial less 1, kept as the root's degree and
\* radicand.  Without measurements the index len-1 panics.
PeriodCagr ==
    /\ \E period \in 1..MaxPeriod :
          LET N == Len(perf.Measurements)
              initialDate == AddDate(perf.Measurements[N].Time, -period)
              older == { i \in 1..N :
                           ~Before(initialDate, perf.Measurements[i].Time) }
              initial == IF older = {} THEN 0
                         ELSE perf.Measurements[
                                 CHOOSE i \in older : \A j \in older : j <= i].Value
          IN perf' = [perf EXCEPT !.metric =
                        [fn |-> "PeriodCagr", period |-> period,
                         result |->
                            IF N = 0 THEN [class |-> "panic"]
                            ELSE IF initial = 0
                            THEN [class |-> "finite", degree |-> 1,
                                  radicand |-> Rat(1, 1)]
                            ELSE [class |-> "finite",
                                  degree |-> IF perf.Measurements[N].Value = initial
                                             THEN 1 ELSE period,
                                  radicand |-> Rat(perf.Measurements[N].Value,
                                                   initial)]]]
    /\ UNCHANGED outsideAnalytics

\* Performance.ExcessReturn (go.mod:639-649).
ExcessReturn(Measurements) ==
    [i \in DOMAIN Measurements |->
        RSub(Measurements[i].PercentReturn,
             LET prev == Measurements[IF i = 1 THEN 1 ELSE i - 1].RiskFreeValue
             IN Rat(Measurements[i].RiskFreeValue - prev, prev))]

\* Performance.SharpeRatio (go.mod:651-659): stat.Mean over stat.StdDev,
\* the root of the sample variance, which is 0/0 for one value; times the
\* root of 12.  A division by zero is an infinity, or NaN for 0/0.
SharpeRatio ==
    /\ \E excessReturn \in { ExcessReturn(perf.Measurements) } :
       \E mean \in { IF excessReturn = << >> THEN NaN
                     ELSE RDiv(RSum(excessReturn),
                               Rat(Len(excessReturn), 1)) } :
          perf' = [perf EXCEPT !.metric =
                     [fn |-> "SharpeRatio",
                      result |->
                         IF perf.Measurements = << >> THEN [class |-> "panic"]
                         ELSE Quotient(mean,
                                RDiv(RSum([i \in DOMAIN excessReturn |->
                                             RMul(RSub(excessReturn[i], mean),
                                                  RSub(excessReturn[i], mean))]),
                                     Rat(Len(excessReturn) - 1, 1)))]]
    /\ UNCHANGED outsideAnalytics

\* Performance.SortinoRatio (go.mod:661-685).
SortinoRatio ==
    /\ \E excessReturn \in { ExcessReturn(perf.Measurements) } :
       \E downside \in
             { IF excessReturn = << >> THEN NaN
               ELSE RDiv(RSum([i \in DOMAIN excessReturn |->
                                 IF excessReturn[i].num < 0
                                 THEN RMul(excessReturn[i], excessReturn[i])
                                 ELSE Rat(0, 1)]),
                         Rat(Len(excessReturn), 1)) } :
          perf' = [perf EXCEPT !.metric =
                     [fn |-> "SortinoRatio",
                      result |->
                         IF perf.Measurements = << >> THEN [class |-> "panic"]
                         ELSE IF downside.num = 0 THEN Root(0, Rat(0, 1))
                         ELSE Quotient(RDiv(RSum(excessReturn),
                                            Rat(Len(excessReturn), 1)),
                                       downside)]]
    /\ UNCHANGED outsideAnalytics

\* Performance.UlcerIndex (go.mod:596-630): the squares of its values.  At
\* index ii >= period (from 0) the lookback holds the measurements
\* ii-period+1 .. ii.
UlcerIndex(Measurements, period) ==
    LET N == Len(Measurements)
        Window(at) == [k \in 1..period |-> Measurements[at - period + 1 + k].Value]
        MaxClose(w) == CHOOSE m \in { w[k] : k \in DOMAIN w } \cup { 0 } :
                          \A k \in DOMAIN w : w[k] <= m
        SqAvg(w, maxClose) ==
            RDiv(RSum([k \in DOMAIN w |->
                         RMul(Rat((w[k] - maxClose) * 100, maxClose),
                              Rat((w[k] - maxClose) * 100, maxClose))]),
                 Rat(period, 1))
    IN IF N < period THEN <<Rat(0, 1)>>
       ELSE [r \in 1..(N - period) |->
               SqAvg(Window(r - 1 + period), MaxClose(Window(r - 1 + period)))]

\* Performance.AvgUlcerIndex (go.mod:632-637): stat.Mean of the index, which
\* is 0/0 for an empty list.
AvgUlcerIndex ==
    /\ \E period \in 1..MaxPeriod :
       \E u \in { UlcerIndex(perf.Measurements, period) } :
          perf' = [perf EXCEPT !.metric =
                     [fn |-> "AvgUlcerIndex", period |-> period,
                      squares |-> u,
                      result |-> IF u = << >> THEN [class |-> "NaN"]
                                 ELSE [class |-> "finite"]]]
    /\ UNCHANGED outsideAnalytics

MetricsNext ==
    \/ PeriodCagr
    \/ SharpeRatio
    \/ SortinoRatio
    \/ AvgUlcerIndex

MetricsInit ==
    /\ perf \in { [NoPerformance EXCEPT !.Measurements = m] :
                    m \in DatedSeries \cup ReturnSeries }
    /\ NotifierIdle /\ HandlerIdle /\ TiingoIdle /\ AdmIdle /\ FredIdle

SpecMetrics == MetricsInit /\ [][MetricsNext]_vars

\* ------------------------------------------------------------- risk-free rate

\* What FRED has: rows on every other day from day 12 on, each with a rate
\* or NaN.
FredSeries ==
    { [k \in 1..n |-> [date |-> 10 + 2 * k, value |-> values[k]]] :
        values \in [1..MaxRates -> { NaN, Rat(1, 1), Rat(2, 1) }],
        n \in 0..MaxRates }

\* A load of the series whether or not it is loaded.
LoadAgain(global, series) ==
    [global EXCEPT !.loaded = TRUE, !.loads = global.loads + 1,
                   !.series = series]

\* The load of the series under its one-shot guard.
LoadOnce(global, series) ==
    IF global.loaded THEN global
    ELSE [global EXCEPT !.loaded = TRUE, !.loads = global.loads + 1,
                        !.series = series]

\* The lookup without the walk back over NaN.
RiskFreeRateAtDate(series, d) ==
    LET at == { i \in DOMAIN series : series[i].date <= d }
    IN IF at = {} \/ series[Cardinality(at)].value.nan THEN Rat(0, 1)
       ELSE series[Cardinality(at)].value

\* The lookup of RiskFreeRate: a binary search for the last row dated at or
\* before d, then a walk back to a row whose value is not NaN; 0 without one.
RiskFreeRateOn(series, d) ==
    LET search[lo \in 0..Len(series), hi \in 0..Len(series)] ==
            IF lo >= hi THEN lo
            ELSE IF series[(lo + hi + 1) \div 2].date <= d
            THEN search[(lo + hi + 1) \div 2, hi]
            ELSE search[lo, ((lo + hi + 1) \div 2) - 1]
        walk[i \in 0..Len(series)] ==
            IF i = 0 THEN Rat(0, 1)
            ELSE IF series[i].value.nan THEN walk[i - 1]
            ELSE series[i].value
    IN walk[search[0, Len(series)]]

\* data.InitializeDataManager (called at part_001:38 before each test).
InitializeDataManager ==
    /\ fred.loads < MaxInitCalls
    /\ \E series \in FredSeries : fred' = LoadOnce(fred, series)
    /\ UNCHANGED outsideFred

\* Manager.RiskFreeRate(onDate); a caller waits for the series to be built.
RiskFreeRate ==
    /\ fred.loaded
    /\ \E d \in 11..(12 + 2 * MaxRates) :
          fred' = [fred EXCEPT !.previous = fred.query,
                               !.query = d,
                               !.answer = RiskFreeRateOn(fred.series, d)]
    /\ UNCHANGED outsideFred

FredNext ==
    \/ InitializeDataManager
    \/ RiskFreeRate

FredInit ==
    FredIdle /\ NotifierIdle /\ HandlerIdle /\ TiingoIdle /\ AdmIdle
    /\ AnalyticsIdle

SpecFred == FredInit /\ [][FredNext]_vars

\* --------------------------------------------------------- analytics claims

\* The greatest value among the first i measurements.
RunningPeak(i) ==
    CHOOSE p \in { perf.Measurements[j].Value : j \in 1..i } :
        \A j \in 1..i : perf.Measurements[j].Value <= p

\* Measurement i is below the running peak.
Under(i) == perf.Measurements[i].Value < RunningPeak(i)

\* The drawdown episodes of the series: the longest runs <<b, e>> of
\* measurements below the running peak.
Episodes ==
    LET n == Len(perf.Measurements)
    IN { ep \in (1..n) \X (1..n) :
           /\ ep[1] <= ep[2]
           /\ \A i \in ep[1]..ep[2] : Under(i)
           /\ ep[1] = 1 \/ ~Under(ep[1] - 1)
           /\ ep[2] = n \/ ~Under(ep[2] + 1) }

\* The least value of an episode, and its loss against the peak.
Trough(ep) ==
    CHOOSE v \in { perf.Measurements[i].Value : i \in ep[1]..ep[2] } :
        \A i \in ep[1]..ep[2] : v <= perf.Measurements[i].Value
EpisodeLoss(ep) ==
    Rat(Trough(ep) - RunningPeak(ep[1]), RunningPeak(ep[1]))

\* The episode has not recovered by the last measurement.
Unrecovered(ep) == ep[2] = Len(perf.Measurements)

\* The returned drawdown d reports the episode ep.
Reports(d, ep) ==
    /\ d.Begin = perf.Measurements[ep[1]].Time
    /\ d.LossPercent = EpisodeLoss(ep)

\* C19: DrawDowns returns the min(10, k) drawdowns of most negative
\* lossPercent among all k episodes of the series, most negative first, and
\* an episode not recovered by the last measurement is one of the k and is
\* reported with recovery = 0.
C19_TopTenOfAllEpisodes ==
    perf.built =>
        /\ Len(perf.DrawDowns) =
              (IF Cardinality(Episodes) > 10 THEN 10
               ELSE Cardinality(Episodes))
        /\ \A k \in 1..(Len(perf.DrawDowns) - 1) :
              ~RLess(perf.DrawDowns[k + 1].LossPercent,
                     perf.DrawDowns[k].LossPercent)
        /\ \A k \in DOMAIN perf.DrawDowns :
              \E ep \in Episodes :
                  /\ Reports(perf.DrawDowns[k], ep)
                  /\ Unrecovered(ep) => perf.DrawDowns[k].Recovery = 0
        /\ \A ep \in Episodes :
              \/ \E k \in DOMAIN perf.DrawDowns : Reports(perf.DrawDowns[k], ep)
              \/ \A k \in DOMAIN perf.DrawDowns :
                    ~RLess(EpisodeLoss(ep), perf.DrawDowns[k].LossPercent)

\* C20: each drawdown DrawDowns returns is an episode of the series: its
\* lossPercent is below 0 and is trough/peak - 1, begin <= end <= recovery
\* (or recovery is 0 and the episode has not recovered), begin is the first
\* measurement below the running peak, end is the time of a measurement at
\* the deepest trough, recovery is the first later measurement at or above
\* the peak, and the intervals from begin to recovery of two returned
\* drawdowns do not overlap.
C20_DrawDownsAreEpisodes ==
    perf.built =>
        /\ \A k \in DOMAIN perf.DrawDowns :
              \E ep \in Episodes :
                  /\ Reports(perf.DrawDowns[k], ep)
                  /\ RLess(perf.DrawDowns[k].LossPercent, Rat(0, 1))
                  /\ perf.DrawDowns[k].Begin <= perf.DrawDowns[k].End
                  /\ \/ perf.DrawDowns[k].End <= perf.DrawDowns[k].Recovery
                     \/ perf.DrawDowns[k].Recovery = 0 /\ Unrecovered(ep)
                  /\ \E i \in ep[1]..ep[2] :
                        /\ perf.DrawDowns[k].End = perf.Measurements[i].Time
                        /\ perf.Measurements[i].Value = Trough(ep)
                  /\ ~Unrecovered(ep) =>
                        perf.DrawDowns[k].Recovery
                           = perf.Measurements[ep[2] + 1].Time
        /\ \A k, l \in DOMAIN perf.DrawDowns :
              k # l => \/ perf.DrawDowns[k].Recovery < perf.DrawDowns[l].Begin
                       \/ perf.DrawDowns[l].Recovery < perf.DrawDowns[k].Begin

\* Two drawdowns were returned, one of them with its trough after its begin
\* and its recovery after its trough.
C20_TwoDrawDownsOneDeepening ==
    /\ perf.built
    /\ Len(perf.DrawDowns) >= 2
    /\ \E k \in DOMAIN perf.DrawDowns :
          /\ perf.DrawDowns[k].Begin < perf.DrawDowns[k].End
          /\ perf.DrawDowns[k].End < perf.DrawDowns[k].Recovery

\* ----------------------------------------------------------- metrics claims

\* The float64 zero.
Zero == [class |-> "finite", sign |-> 0, square |-> Rat(0, 1)]

\* C21: PeriodCagr(n) takes as initial value the value of the latest
\* measurement at or before the last measurement's time less n years: it
\* returns the n-th root of final/initial less 1, and 0 when no measurement is
\* that old; and it is defined (returns a value) for every series,
\* a single measurement included.
C21_PeriodCagrInitialValue ==
    perf.metric.fn = "PeriodCagr" =>
        /\ perf.metric.result.class = "finite"
        /\ LET N == Len(perf.Measurements)
               cutoff == AddDate(perf.Measurements[N].Time, -perf.metric.period)
               old == { i \in 1..N : \/ perf.Measurements[i].Time = cutoff
                                     \/ Before(perf.Measurements[i].Time, cutoff) }
               ratio == Rat(perf.Measurements[N].Value,
                            perf.Measurements[CHOOSE i \in old :
                                                 \A j \in old : j <= i].Value)
           IN IF old = {}
              THEN perf.metric.result.radicand = Rat(1, 1)
              ELSE /\ perf.metric.result.radicand = ratio
                   /\ \/ perf.metric.result.degree = perf.metric.period
                      \/ ratio = Rat(1, 1)

\* All the excess returns of the series are the same, and there are two at
\* least.
NoDeviation ==
    /\ Len(perf.Measurements) >= 2
    /\ \A i, j \in DOMAIN perf.Measurements :
          ExcessReturn(perf.Measurements)[i] = ExcessReturn(perf.Measurements)[j]

\* No excess return of the series is negative, and there is one at least.
NoDownside ==
    /\ Len(perf.Measurements) >= 1
    /\ \A i \in DOMAIN perf.Measurements :
          ExcessReturn(perf.Measurements)[i].num >= 0

\* SortinoRatio returns 0 when no excess return is negative: the half of
\* the statement on the two ratios that is about Sortino.
SortinoZeroWithoutDownside ==
    (perf.metric.fn = "SortinoRatio" /\ NoDownside) => perf.metric.result = Zero

\* C22: SharpeRatio returns 0 when the standard deviation of the excess
\* returns is 0, and SortinoRatio returns 0 when no excess return is
\* negative; neither is infinite or undefined then.
C22_ZeroNotInfinite ==
    /\ (perf.metric.fn = "SharpeRatio" /\ NoDeviation) =>
          perf.metric.result = Zero
    /\ (perf.metric.fn = "SortinoRatio" /\ NoDownside) =>
          perf.metric.result = Zero

\* C27: UlcerIndex(period) has one value for each window of period
\* consecutive measurements, the window ending at each index from period-1
\* on, computed from the values and the maximum of that window; and
\* AvgUlcerIndex is defined when there are exactly period measurements.
C27_UlcerIndexPerWindow ==
    (perf.metric.fn = "AvgUlcerIndex"
     /\ Len(perf.Measurements) >= perf.metric.period) =>
        LET period == perf.metric.period
            Value(i) == perf.Measurements[i].Value
            Highest(from) ==
                CHOOSE m \in { Value(i) : i \in from..(from + period - 1) } :
                    \A i \in from..(from + period - 1) : Value(i) <= m
            Squared(from) ==
                RDiv(RSum([k \in 1..period |->
                             RMul(Rat((Value(from + k - 1) - Highest(from)) * 100,
                                      Highest(from)),
                                  Rat((Value(from + k - 1) - Highest(from)) * 100,
                                      Highest(from)))]),
                     Rat(period, 1))
        IN /\ Len(perf.metric.squares) = Len(perf.Measurements) - period + 1
           /\ \A r \in DOMAIN perf.metric.squares :
                 perf.metric.squares[r] = Squared(r)
           /\ perf.metric.result.class = "finite"

\* ---------------------------------------------------- risk-free rate claims

\* The rows of the loaded series dated at or before the query, and those of
\* them with a rate.
RowsUpToQuery == { i \in DOMAIN fred.series : fred.series[i].date <= fred.query }
FiniteUpToQuery == { i \in RowsUpToQuery : ~fred.series[i].value.nan }

\* C23: RiskFreeRate(d) returns the value at the largest date <= d; when
\* that value is NaN, the nearest earlier value that is not; and 0 when
\* there is no such value at or before d.
C23_LatestFiniteRate ==
    fred.query # 0 =>
        fred.answer =
            IF FiniteUpToQuery = {} THEN Rat(0, 1)
            ELSE fred.series[CHOOSE i \in FiniteUpToQuery :
                                \A j \in FiniteUpToQuery : j <= i].value

\* A query on a date whose row is NaN after a row with a rate.
C23_WalkedBackOverNaN ==
    /\ fred.query # 0
    /\ \E i \in RowsUpToQuery :
          /\ \A j \in RowsUpToQuery : j <= i
          /\ fred.series[i].value.nan
    /\ FiniteUpToQuery # {}

\* The value a scan of the series from its first row gives for date d: the
\* last rate seen on the rows up to d.
ForwardScan(series, d) ==
    LET seen[i \in 0..Len(series)] ==
            IF i = 0 THEN Rat(0, 1)
            ELSE IF series[i].date > d THEN seen[i - 1]
            ELSE IF series[i].value.nan THEN seen[i - 1]
            ELSE series[i].value
    IN seen[Len(series)]

\* C24: whatever was queried before, a query returns what a forward scan of
\* the series gives for its date; the series is loaded at most once, and no
\* query and no later load changes it.
C24_QueriesIndependentOfHistory ==
    [][/\ fred.loaded => /\ fred'.series = fred.series
                          /\ fred'.loads = fred.loads
       /\ fred'.query # 0 =>
             fred'.answer = ForwardScan(fred'.series, fred'.query)]_vars

\* A query on an earlier date than the query before it.
C24_QueriedOutOfOrder ==
    /\ fred.query # 0
    /\ fred.previous > fred.query
    /\ fred.answer # Rat(0, 1)

\* ------------------------------------------------- request window claims

\* Date u is the day of date t the given number of calendar months before
\* it; where that month ends before the day, the days over are counted into
\* the month after it (time.AddDate).
MonthsBefore(u, t, months) ==
    LET Index(x) == x.year * 12 + (x.month - 1)
        Short == DaysIn((Index(u) - 1) \div 12, ((Index(u) - 1) % 12) + 1)
    IN \/ Index(t) - Index(u) = months /\ u.day = t.day
       \/ /\ Index(t) - Index(u) = months - 1
          /\ t.day > Short
          /\ u.day = t.day - Short

\* C25: when Compute fetches, the manager's End is the current time if the
\* caller left it unset and as given otherwise; its Begin is 50 years before
\* End if the caller left it unset and 6 months before the given Begin
\* otherwise; its Frequency is monthly.
C25_WindowFixedBeforeFetch ==
    ComputeCalled =>
        LET given == admCall.manager
            window == admResult.window
        IN /\ window.End = IF given.End = nullTime THEN admCall.now
                           ELSE given.End
           /\ IF given.Begin = nullTime
              THEN MonthsBefore(window.Begin, window.End, 600)
              ELSE MonthsBefore(window.Begin, given.Begin, 6)
           /\ window.Frequency = "Monthly"

\* A first Compute on a manager with Begin set, End unset and no Frequency.
C25_BeginSetEndUnset ==
    /\ ComputeCalled
    /\ computes = 1
    /\ admCall.manager.Begin # nullTime
    /\ admCall.manager.End = nullTime
    /\ admCall.manager.Frequency # "Monthly"

\* C28: a Compute on the manager of a Compute before it fetches the window
\* that the one before it fetched.
C28_SameWindowEveryCall ==
    [][(admCall.fn = "Compute" /\ admCall'.fn = "Compute" /\ computes' # computes)
          => admResult'.window = admResult.window]_vars

\* ------------------------------------------------------ risk-free rows

\* A Compute whose download came to its end: the aligned price rows and the
\* risk-free rows that it left on the instance, and the TB3MS rows that the
\* manager had.
DownloadDone ==
    /\ ComputeCalled
    /\ NotFetched = {}
    /\ admResult.prices # << >>
FetchedRates == RateHistories[admCall.fetched[riskFreeSymbol]]
AlignedStart == admResult.prices.dates[1]
AlignedEnd == admResult.prices.dates[Len(admResult.prices.dates)]

\* The rows the claim describes: the fetched rows, with the last value on the
\* aligned end when the last row's month is before it; of these the rows of
\* the aligned range, with the first value on the aligned start when the
\* first row is after it.
CoveringRows ==
    LET last == FetchedRates[Len(FetchedRates)]
        extended ==
            IF \/ last.date.year < AlignedEnd.year
               \/ /\ last.date.year = AlignedEnd.year
                  /\ last.date.month < AlignedEnd.month
            THEN Append(FetchedRates, [date |-> AlignedEnd, value |-> last.value])
            ELSE FetchedRates
        kept == SelectSeq(extended,
                    LAMBDA row : /\ ~Before(row.date, AlignedStart)
                                 /\ ~Before(AlignedEnd, row.date))
    IN IF kept # << >> /\ Before(AlignedStart, kept[1].date)
       THEN <<[date |-> AlignedStart, value |-> kept[1].value]>> \o kept
       ELSE kept

\* C26: after the download the risk-free rows are the fetched rows with
\* (alignedEnd, lastValue) appended exactly when the last row's (year, month)
\* precedes alignedEnd, and (alignedStart, firstValue) put in front exactly
\* when the first row is after alignedStart; every date lies in
\* [alignedStart, alignedEnd], and there is one row for each aligned price row.
C26_RiskFreeCoversAlignedRange ==
    DownloadDone =>
        /\ admResult.riskFreeRate = CoveringRows
        /\ \A i \in DOMAIN admResult.riskFreeRate :
              /\ ~Before(admResult.riskFreeRate[i].date, AlignedStart)
              /\ ~Before(AlignedEnd, admResult.riskFreeRate[i].date)
        /\ Len(admResult.riskFreeRate) = Len(admResult.prices.dates)

\* ------------------------------------------------- unverified recipients

\* C29: processNotifications for a user whose address is not verified calls
\* the mail service for none of the frequencies that are due, passes each of
\* them by, and returns to the loop of main, which goes on with the
\* portfolios that remain.
C29_UnverifiedNeverMailed ==
    [][(pc = "notify" /\ notifyUser' = "unverified") =>
          /\ requests' = <<>>
          /\ skipped' = 0
          /\ apiCalls' = apiCalls
          /\ pc' = "limit"
          /\ exitCode' = 0]_vars

\* The loop of main going on to the next portfolio after an unverified user
\* for whom two frequencies were due and sending was not disabled.
C29_UnverifiedThenNextPortfolio ==
    /\ notifyUser = "unverified"
    /\ ~disableSend
    /\ Len(toSend) >= 2
    /\ pc = "loop"
    /\ ii < numPortfolios

====
